---------------------------- MODULE Spec2Model ----------------------------
(***************************************************************************)
(* A model of monkeylang: the Pratt parser (two revisions of it are in the  *)
(* repository), the AST pretty-printer, the environment chain of the       *)
(* object package, the evaluator and the REPL.                             *)
(*                                                                         *)
(* Text is modelled as a sequence of one-character strings, so that the    *)
(* pretty-printer really concatenates and the lexer really scans.          *)
(***************************************************************************)
EXTENDS Integers, Sequences, FiniteSets, TLC

VARIABLES
    p,          \* the *Parser of the revision in src/unnamed/part_001
    program,    \* the *ast.Program under construction / returned
    pc,         \* where the driver of the parser is
    call,       \* the last single parser operation called, with its result
    printed,    \* Program.String() of the returned program
    reparsed,   \* parse of the printed text: [errors, printed]
    p0,         \* the *Parser of the revision in src/parser/parser.go
    program0,   \* its program
    stmt0,      \* the statement its parseLet/ReturnStatement is building
    pc0,        \* where that parser is
    envs,       \* the heap of *Enviroment objects, by address 1..n
    last,       \* the last Enviroment operation called, with its result
    objects,    \* the heap of object.Object values, by address 1..n
    evaluated,  \* the last call of Eval, with its result
    env,        \* the env variable of repl.Start
    out,        \* what repl.Start has written to its io.Writer, in order
    rpc,        \* where repl.Start is
    lines       \* the lines repl.Start has handled, each with its outcome

vars == <<p, program, pc, call, printed, reparsed,
          p0, program0, stmt0, pc0, envs, last,
          objects, evaluated, env, out, rpc, lines>>

parserVars == <<p, program, pc, call, printed, reparsed>>
parser0Vars == <<p0, program0, stmt0, pc0>>
envVars == <<envs, last>>
evalVars == <<objects, evaluated>>
replVars == <<env, out, rpc, lines>>

(***************************************************************************)
(* Bounds of the model.                                                    *)
(***************************************************************************)
MaxTokens == 2      \* longest free token stream fed to the parsers
MaxOps == 3         \* most binary operators in a generated expression
MaxEnvs == 3        \* most environments allocated
MaxBindings == 3    \* most names bound in all the environments together
MaxPairs == 2       \* hash literals whose iteration order is permuted
MaxStmts == 2       \* most statements in a generated program
MaxBlockStmts == 2  \* most statements in a generated block
MaxEvals == 2       \* most calls of Eval on the nodes of one program
MaxLines == 3       \* most lines the REPL reads

(***************************************************************************)
(* Tokens.  A token is (Type, Literal); Literal is text.                   *)
(***************************************************************************)
Tok(type, lit) == [Type |-> type, Literal |-> lit]

ZeroToken == Tok("", <<>>)          \* Go's zero value of token.Token
EOFToken == Tok("EOF", <<>>)

Keywords ==
    ( <<"f", "n">> :> "FUNCTION"
   @@ <<"l", "e", "t">> :> "LET"
   @@ <<"t", "r", "u", "e">> :> "TRUE"
   @@ <<"f", "a", "l", "s", "e">> :> "FALSE"
   @@ <<"i", "f">> :> "IF"
   @@ <<"e", "l", "s", "e">> :> "ELSE"
   @@ <<"r", "e", "t", "u", "r", "n">> :> "RETURN" )

Punctuation ==
    ( "+" :> "PLUS" @@ "-" :> "MINUS" @@ "*" :> "ASTERISK" @@ "/" :> "SLASH"
   @@ "<" :> "LT" @@ ">" :> "GT" @@ "," :> "COMMA" @@ ";" :> "SEMICOLON"
   @@ ":" :> "COLON" @@ "(" :> "LPAREN" @@ ")" :> "RPAREN"
   @@ "{" :> "LBRACE" @@ "}" :> "RBRACE" @@ "[" :> "LBRACKET"
   @@ "]" :> "RBRACKET" )

Letters ==
    {"a", "b", "c", "d", "e", "f", "g", "h", "i", "j", "k", "l", "m", "n",
     "o", "p", "q", "r", "s", "t", "u", "v", "w", "x", "y", "z", "_",
     "A", "B", "C", "D", "E", "F", "G", "H", "I", "J", "K", "L", "M", "N",
     "O", "P", "Q", "R", "S", "T", "U", "V", "W", "X", "Y", "Z"}

Digits == {"0", "1", "2", "3", "4", "5", "6", "7", "8", "9"}

Whitespace == {" ", "\t", "\r", "\n"}

(***************************************************************************)
(* The lexer.  lexer.New(input) scans text; NextToken hands out the        *)
(* tokens one by one and then EOF for ever.                                *)
(***************************************************************************)
RECURSIVE SpanWhile(_, _, _)
\* the first position >= i of s whose character is not in set
SpanWhile(s, i, set) ==
    IF i <= Len(s) /\ s[i] \in set THEN SpanWhile(s, i + 1, set) ELSE i

RECURSIVE SpanUntil(_, _, _)
\* the first position >= i of s holding character ch, or Len(s) + 1
SpanUntil(s, i, ch) ==
    IF i <= Len(s) /\ s[i] # ch THEN SpanUntil(s, i + 1, ch) ELSE i

RECURSIVE Tokenize(_, _)
\* the tokens of s from position i on, without the final EOF
Tokenize(s, i) ==
    LET j == SpanWhile(s, i, Whitespace) IN
    IF j > Len(s) THEN <<>>
    ELSE LET ch == s[j] IN
      IF ch \in {"=", "!"} THEN
        IF j + 1 <= Len(s) /\ s[j + 1] = "="
        THEN <<Tok(IF ch = "=" THEN "EQ" ELSE "NOT_EQ", <<ch, "=">>)>>
                 \o Tokenize(s, j + 2)
        ELSE <<Tok(IF ch = "=" THEN "ASSIGN" ELSE "BANG", <<ch>>)>>
                 \o Tokenize(s, j + 1)
      ELSE IF ch \in DOMAIN Punctuation THEN
        <<Tok(Punctuation[ch], <<ch>>)>> \o Tokenize(s, j + 1)
      ELSE IF ch \in Letters THEN
        LET k == SpanWhile(s, j, Letters)
            lit == SubSeq(s, j, k - 1)
        IN <<Tok(IF lit \in DOMAIN Keywords THEN Keywords[lit] ELSE "IDENT",
                 lit)>> \o Tokenize(s, k)
      ELSE IF ch \in Digits THEN
        LET k == SpanWhile(s, j, Digits)
        IN <<Tok("INT", SubSeq(s, j, k - 1))>> \o Tokenize(s, k)
      ELSE IF ch = "\"" THEN
        LET k == SpanUntil(s, j + 1, "\"")
        IN <<Tok("STRING", SubSeq(s, j + 1, k - 1))>> \o Tokenize(s, k + 1)
      ELSE <<Tok("ILLEGAL", <<ch>>)>> \o Tokenize(s, j + 1)

\* lexer.New on text
NewLexer(text) == [input |-> Tokenize(text, 1), position |-> 1]

\* a lexer whose text scans to the token stream toks
LexerOf(toks) == [input |-> toks, position |-> 1]

\* Lexer.NextToken: [tok, l]
NextToken(l) ==
    IF l.position <= Len(l.input)
    THEN [tok |-> l.input[l.position],
          l |-> [l EXCEPT !.position = @ + 1]]
    ELSE [tok |-> EOFToken, l |-> l]

(***************************************************************************)
(* The AST.  A node is a record with a type field; NIL is Go's nil         *)
(* interface value, NilLetStatement a nil *ast.LetStatement held in a      *)
(* non-nil ast.Statement interface value.  A nil slice is the empty        *)
(* sequence (len 0, and range over it does nothing).                       *)
(***************************************************************************)
NIL == [type |-> "nil"]

NilLetStatement == [type |-> "(*ast.LetStatement)(nil)"]

ProgramNode(stmts) == [type |-> "Program", Statements |-> stmts]

LetStatement(tok, name, value) ==
    [type |-> "LetStatement", Token |-> tok, Name |-> name, Value |-> value]

ReturnStatement(tok, value, returnValue) ==
    [type |-> "ReturnStatement", Token |-> tok, Value |-> value,
     ReturnValue |-> returnValue]

ExpressionStatement(tok, expression) ==
    [type |-> "ExpressionStatement", Token |-> tok, Expression |-> expression]

Identifier(tok) == [type |-> "Identifier", Token |-> tok, Value |-> tok.Literal]

IntegerLiteral(tok, value) ==
    [type |-> "IntegerLiteral", Token |-> tok, Value |-> value]

StringLiteral(tok) ==
    [type |-> "StringLiteral", Token |-> tok, Value |-> tok.Literal]

PrefixExpression(tok, operator, right) ==
    [type |-> "PrefixExpression", Token |-> tok, Operator |-> operator,
     Right |-> right]

InfixExpression(tok, operator, left, right) ==
    [type |-> "InfixExpression", Token |-> tok, Operator |-> operator,
     Left |-> left, Right |-> right]

Boolean(tok, value) == [type |-> "Boolean", Token |-> tok, Value |-> value]

IfExpression(tok, condition, consequence, alternative) ==
    [type |-> "IfExpression", Token |-> tok, Condition |-> condition,
     Consequence |-> consequence, Alternative |-> alternative]

BlockStatement(tok, stmts) ==
    [type |-> "BlockStatement", Token |-> tok, Statements |-> stmts]

FunctionLiteral(tok, parameters, body) ==
    [type |-> "FunctionLiteral", Token |-> tok, Parameters |-> parameters,
     Body |-> body]

CallExpression(tok, function, arguments) ==
    [type |-> "CallExpression", Token |-> tok, Function |-> function,
     Arguments |-> arguments]

ArrayLiteral(tok, elements) ==
    [type |-> "ArrayLiteral", Token |-> tok, Elements |-> elements]

IndexExpression(tok, left, index) ==
    [type |-> "IndexExpression", Token |-> tok, Left |-> left, Index |-> index]

\* Pairs is a Go map keyed by the key expression's pointer: kept here as
\* the sequence of <<key, value>> in insertion order
HashLiteral(tok, pairs) == [type |-> "HashLiteral", Token |-> tok, Pairs |-> pairs]

\* hash.Pairs[key] = value: every parsed key is a fresh pointer, so only a
\* nil key can meet an entry that is already there
MapPut(pairs, key, value) ==
    IF key = NIL /\ \E i \in 1..Len(pairs) : pairs[i][1] = NIL
    THEN [i \in 1..Len(pairs) |->
             IF pairs[i][1] = NIL THEN <<NIL, value>> ELSE pairs[i]]
    ELSE Append(pairs, <<key, value>>)

(***************************************************************************)
(* The pretty-printer, ast.go.  A result is text, or PANIC when the Go     *)
(* code dereferences nil.  ord is the order in which a range over a map    *)
(* happens to visit its entries: a permutation of 1..MaxPairs (entries     *)
(* beyond MaxPairs follow in insertion order).                             *)
(***************************************************************************)
PANIC == <<"panic: nil pointer dereference">>

RECURSIVE Cat(_)
\* bytes.Buffer written with parts in turn; a panic in any part propagates
Cat(parts) ==
    IF parts = <<>> THEN <<>>
    ELSE LET rest == Cat(Tail(parts)) IN
         IF Head(parts) = PANIC \/ rest = PANIC THEN PANIC
         ELSE Head(parts) \o rest

RECURSIVE Join(_, _)
\* strings.Join(parts, sep)
Join(parts, sep) ==
    IF parts = <<>> THEN <<>>
    ELSE IF Len(parts) = 1 THEN Head(parts)
    ELSE Cat(<<Head(parts), sep, Join(Tail(parts), sep)>>)

\* the visiting order of a map of n entries under ord
MapOrder(n, ord) ==
    SelectSeq(ord, LAMBDA i : i <= n)
        \o [i \in 1..(IF n > Len(ord) THEN n - Len(ord) ELSE 0) |-> Len(ord) + i]

RECURSIVE String(_, _)
String(node, ord) ==
    LET Each(nodes) == [i \in 1..Len(nodes) |-> String(nodes[i], ord)]
        t == node.type
    IN
    IF t = "nil" THEN PANIC
    ELSE IF t = "(*ast.LetStatement)(nil)" THEN PANIC
    ELSE IF t = "Program" THEN Cat(Each(node.Statements))
    ELSE IF t = "LetStatement" THEN
        Cat(<<node.Token.Literal, <<" ">>, String(node.Name, ord),
              <<" ", "=", " ">>,
              IF node.Value # NIL THEN String(node.Value, ord) ELSE <<>>,
              <<";">>>>)
    ELSE IF t = "ReturnStatement" THEN
        Cat(<<node.Token.Literal, <<" ">>,
              IF node.Value # NIL THEN String(node.Value, ord) ELSE <<>>,
              <<";">>>>)
    ELSE IF t = "ExpressionStatement" THEN
        IF node.Expression # NIL THEN String(node.Expression, ord) ELSE <<>>
    ELSE IF t = "Identifier" THEN node.Value
    ELSE IF t \in {"IntegerLiteral", "StringLiteral", "Boolean"} THEN
        node.Token.Literal
    ELSE IF t = "PrefixExpression" THEN
        Cat(<<<<"(">>, node.Operator, String(node.Right, ord), <<")">>>>)
    ELSE IF t = "InfixExpression" THEN
        Cat(<<<<"(">>, String(node.Left, ord), <<" ">> \o node.Operator \o <<" ">>,
              String(node.Right, ord), <<")">>>>)
    ELSE IF t = "IfExpression" THEN
        Cat(<<<<"i", "f">>, String(node.Condition, ord), <<" ">>,
              String(node.Consequence, ord),
              IF node.Alternative # NIL
              THEN Cat(<<<<" ", "e", "l", "s", "e", " ">>,
                         String(node.Alternative, ord)>>)
              ELSE <<>>>>)
    ELSE IF t = "BlockStatement" THEN Cat(Each(node.Statements))
    ELSE IF t = "FunctionLiteral" THEN
        Cat(<<node.Token.Literal, <<"(">>,
              Join(Each(node.Parameters), <<",", " ">>), <<")", " ">>,
              String(node.Body, ord)>>)
    ELSE IF t = "CallExpression" THEN
        LET args == Join(Each(node.Arguments), <<",", " ">>) IN
        Cat(<<String(node.Function, ord), <<"(">>, args, <<")">>>>)
    ELSE IF t = "ArrayLiteral" THEN
        Cat(<<<<"[">>, Join(Each(node.Elements), <<",", " ">>), <<"]">>>>)
    ELSE IF t = "IndexExpression" THEN
        Cat(<<<<"(">>, String(node.Left, ord), <<"[">>,
              String(node.Index, ord), <<"]", ")">>>>)
    ELSE IF t = "HashLiteral" THEN
        LET order == MapOrder(Len(node.Pairs), ord)
            pairs == [i \in 1..Len(order) |->
                        Cat(<<String(node.Pairs[order[i]][1], ord), <<":">>,
                              String(node.Pairs[order[i]][2], ord)>>)]
        IN Cat(<<<<"{">>, Join(pairs, <<",", " ">>), <<"}">>>>)
    ELSE PANIC

(***************************************************************************)
(* The parser, src/unnamed/part_001.  A parser is the record               *)
(*   [l, errors, curToken, peekToken, failedPeeks]                         *)
(* where failedPeeks is a history counter of the expectPeek calls that     *)
(* returned false (it is not a field of the Go struct).  An operation      *)
(* that returns a value is [p |-> the parser after, v |-> the value].      *)
(***************************************************************************)
LOWEST == 1
EQUALS == 2
LESSGREATER == 3
SUM == 4
PRODUCT == 5
PREFIX == 6
CALL == 7
INDEX == 8

precedences ==
    ( "EQ" :> EQUALS @@ "NOT_EQ" :> EQUALS @@ "LT" :> LESSGREATER
   @@ "GT" :> LESSGREATER @@ "PLUS" :> SUM @@ "ASTERISK" :> PRODUCT
   @@ "MINUS" :> SUM @@ "SLASH" :> PRODUCT @@ "LPAREN" :> CALL
   @@ "LBRACKET" :> INDEX )

\* the token types New registers a prefix parse function for
prefixParseFns ==
    {"IDENT", "INT", "STRING", "BANG", "MINUS", "TRUE", "FALSE", "LPAREN",
     "IF", "FUNCTION", "LBRACKET", "LBRACE"}

\* the token types New registers an infix parse function for
infixParseFns ==
    {"PLUS", "MINUS", "ASTERISK", "SLASH", "EQ", "NOT_EQ", "LT", "GT",
     "LPAREN", "LBRACKET"}

\* two tokens read from the lexer, the first of them dropped
nextTokenSkipping(q) ==
    LET r == NextToken(NextToken(q.l).l) IN
    [q EXCEPT !.curToken = q.peekToken, !.peekToken = r.tok, !.l = r.l]

nextToken(q) ==
    LET r == NextToken(q.l) IN
    [q EXCEPT !.curToken = q.peekToken, !.peekToken = r.tok, !.l = r.l]

New(l) ==
    nextToken(nextToken([l |-> l, errors |-> <<>>, curToken |-> ZeroToken,
                         peekToken |-> ZeroToken, failedPeeks |-> 0]))

curTokenIs(q, t) == q.curToken.Type = t

peekTokenIs(q, t) == q.peekToken.Type = t

peekPrecedence(q) ==
    IF q.peekToken.Type \in DOMAIN precedences
    THEN precedences[q.peekToken.Type] ELSE LOWEST

curPrecedence(q) ==
    IF q.curToken.Type \in DOMAIN precedences
    THEN precedences[q.curToken.Type] ELSE LOWEST

\* fmt.Sprintf("expected next token to be %s, got %s instead", t, got)
PeekErrorMsg(t, got) ==
    <<"expected next token to be ", t, ", got ", got, " instead">>

\* fmt.Sprintf("no prefix parse function for token '%s' found", t)
NoPrefixMsg(t) == <<"no prefix parse function for token '", t, "' found">>

\* fmt.Sprintf("could not parse %q as integer", literal)
IntegerErrorMsg(lit) == <<"could not parse ", lit, " as integer">>

\* the message formatted with the expected type in both places
peekErrorExpectedTwice(q, t) ==
    [q EXCEPT !.errors = Append(@, PeekErrorMsg(t, t))]

\* the message assigned, not appended
peekErrorReplacing(q, t) ==
    [q EXCEPT !.errors = <<PeekErrorMsg(t, q.peekToken.Type)>>]

peekError(q, t) ==
    [q EXCEPT !.errors = Append(@, PeekErrorMsg(t, q.peekToken.Type))]

\* [p, ok]
expectPeek(q, t) ==
    IF peekTokenIs(q, t)
    THEN [p |-> nextToken(q), ok |-> TRUE]
    ELSE [p |-> [peekError(q, t) EXCEPT !.failedPeeks = @ + 1], ok |-> FALSE]

\* the token without a prefix function skipped as well
noPrefixParseFnErrorSkipping(q, t) ==
    nextToken([q EXCEPT !.errors = Append(@, NoPrefixMsg(t))])

noPrefixParseFnError(q, t) ==
    [q EXCEPT !.errors = Append(@, NoPrefixMsg(t))]

DigitValue ==
    ( "0" :> 0 @@ "1" :> 1 @@ "2" :> 2 @@ "3" :> 3 @@ "4" :> 4
   @@ "5" :> 5 @@ "6" :> 6 @@ "7" :> 7 @@ "8" :> 8 @@ "9" :> 9 )

RECURSIVE Number(_, _)
\* the value of the digits in the base
Number(digits, base) ==
    IF digits = <<>> THEN 0
    ELSE Number(SubSeq(digits, 1, Len(digits) - 1), base) * base
             + DigitValue[digits[Len(digits)]]

\* strconv.ParseInt(literal, 0, 64) of a literal of digits: a leading 0
\* makes it octal.  [ok, val].  (The literals of the model are short: a
\* literal out of the int64 range is not among them.)
ParseInt(lit) ==
    IF Len(lit) > 1 /\ lit[1] = "0"
    THEN IF \E i \in 2..Len(lit) : lit[i] \in {"8", "9"}
         THEN [ok |-> FALSE, val |-> 0]
         ELSE [ok |-> TRUE, val |-> Number(Tail(lit), 8)]
    ELSE [ok |-> TRUE, val |-> Number(lit, 10)]

parseIdentifier(q) == [p |-> q, v |-> Identifier(q.curToken)]

\* a literal that is no integer given up without a message
parseIntegerLiteralSilent(q) ==
    LET r == ParseInt(q.curToken.Literal) IN
    IF ~r.ok THEN [p |-> q, v |-> NIL]
    ELSE [p |-> q, v |-> IntegerLiteral(q.curToken, r.val)]

parseIntegerLiteral(q) ==
    LET r == ParseInt(q.curToken.Literal) IN
    IF ~r.ok
    THEN [p |-> [q EXCEPT !.errors =
                    Append(@, IntegerErrorMsg(q.curToken.Literal))],
          v |-> NIL]
    ELSE [p |-> q, v |-> IntegerLiteral(q.curToken, r.val)]

parseStringLiteral(q) == [p |-> q, v |-> StringLiteral(q.curToken)]

parseBoolean(q) == [p |-> q, v |-> Boolean(q.curToken, curTokenIs(q, "TRUE"))]

\* sequencing: the value r of one step handed to the rest K of the function
Bind(r, K(_)) == K(r)

Res(q, v) == [p |-> q, v |-> v]

RECURSIVE parseExpression(_, _)
RECURSIVE parseExpressionLoop(_, _, _)
RECURSIVE parseStatement(_)
RECURSIVE parseBlockStatement(_)
RECURSIVE parseExpressionList(_, _)
RECURSIVE parseExpressionListLoop(_, _, _)
RECURSIVE parseHashLiteralLoop(_, _, _)

\* the operand parsed at LOWEST: it takes in every operator that follows
parsePrefixExpressionAtLowest(q) ==
    Bind(parseExpression(nextToken(q), LOWEST), LAMBDA r :
    Res(r.p, PrefixExpression(q.curToken, q.curToken.Literal, r.v)))

parsePrefixExpression(q) ==
    Bind(parseExpression(nextToken(q), PREFIX), LAMBDA r :
    Res(r.p, PrefixExpression(q.curToken, q.curToken.Literal, r.v)))

\* the right operand parsed one level lower: equal operators group rightwards
parseInfixExpressionRightAssociative(q, left) ==
    Bind(parseExpression(nextToken(q), curPrecedence(q) - 1), LAMBDA r :
    Res(r.p, InfixExpression(q.curToken, q.curToken.Literal, left, r.v)))

parseInfixExpression(q, left) ==
    Bind(parseExpression(nextToken(q), curPrecedence(q)), LAMBDA r :
    Res(r.p, InfixExpression(q.curToken, q.curToken.Literal, left, r.v)))

parseGroupedExpression(q) ==
    Bind(parseExpression(nextToken(q), LOWEST), LAMBDA r :
    Bind(expectPeek(r.p, "RPAREN"), LAMBDA e :
    IF ~e.ok THEN Res(e.p, NIL) ELSE Res(e.p, r.v)))

\* parseIfExpression from "if p.peekTokenIs(token.ELSE)" on
parseIfExpressionElse(tok, condition, b1) ==
    IF peekTokenIs(b1.p, "ELSE")
    THEN Bind(expectPeek(nextToken(b1.p), "LBRACE"), LAMBDA e4 :
         IF ~e4.ok THEN Res(e4.p, NIL)
         ELSE Bind(parseBlockStatement(e4.p), LAMBDA b2 :
              Res(b2.p, IfExpression(tok, condition, b1.v, b2.v))))
    ELSE Res(b1.p, IfExpression(tok, condition, b1.v, NIL))

parseIfExpression(q) ==
    Bind(expectPeek(q, "LPAREN"), LAMBDA e1 :
    IF ~e1.ok THEN Res(e1.p, NIL)
    ELSE Bind(parseExpression(nextToken(e1.p), LOWEST), LAMBDA c :
         Bind(expectPeek(c.p, "RPAREN"), LAMBDA e2 :
         IF ~e2.ok THEN Res(e2.p, NIL)
         ELSE Bind(expectPeek(e2.p, "LBRACE"), LAMBDA e3 :
              IF ~e3.ok THEN Res(e3.p, NIL)
              ELSE Bind(parseBlockStatement(e3.p), LAMBDA b1 :
                   parseIfExpressionElse(q.curToken, c.v, b1))))))

parseBlockStatement(q) ==
    Bind(nextToken(q), LAMBDA q1 :
    IF ~curTokenIs(q1, "RBRACE") /\ ~curTokenIs(q1, "EOF")
    THEN Bind(parseStatement(q1), LAMBDA r :
         Res(nextToken(r.p),
             BlockStatement(q.curToken,
                            IF r.v # NIL THEN <<r.v>> ELSE <<>>)))
    ELSE Res(q1, BlockStatement(q.curToken, <<>>)))

RECURSIVE parseFunctionParametersLoop(_, _)
\* the for loop of parseFunctionParameters, then its end
parseFunctionParametersLoop(q, identifiers) ==
    IF peekTokenIs(q, "COMMA")
    THEN Bind(nextToken(nextToken(q)), LAMBDA q2 :
         parseFunctionParametersLoop(
             q2, Append(identifiers, Identifier(q2.curToken))))
    ELSE Bind(expectPeek(q, "RPAREN"), LAMBDA e :
         IF ~e.ok THEN Res(e.p, <<>>) ELSE Res(e.p, identifiers))

parseFunctionParameters(q) ==
    IF peekTokenIs(q, "RPAREN")
    THEN Res(nextToken(q), <<>>)
    ELSE Bind(nextToken(q), LAMBDA q1 :
         parseFunctionParametersLoop(q1, <<Identifier(q1.curToken)>>))

parseFunctionLiteral(q) ==
    Bind(expectPeek(q, "LPAREN"), LAMBDA e1 :
    IF ~e1.ok THEN Res(e1.p, NIL)
    ELSE Bind(parseFunctionParameters(e1.p), LAMBDA ps :
         Bind(expectPeek(ps.p, "LBRACE"), LAMBDA e2 :
         IF ~e2.ok THEN Res(e2.p, NIL)
         ELSE Bind(parseBlockStatement(e2.p), LAMBDA b :
              Res(b.p, FunctionLiteral(q.curToken, ps.v, b.v))))))

\* the for loop of parseExpressionList, then its end
parseExpressionListLoop(q, end, list) ==
    IF peekTokenIs(q, "COMMA")
    THEN Bind(parseExpression(nextToken(nextToken(q)), LOWEST), LAMBDA r :
         parseExpressionListLoop(r.p, end, Append(list, r.v)))
    ELSE Bind(expectPeek(q, end), LAMBDA e :
         IF ~e.ok THEN Res(e.p, <<>>) ELSE Res(e.p, list))

parseExpressionList(q, end) ==
    IF peekTokenIs(q, end)
    THEN Res(nextToken(q), <<>>)
    ELSE Bind(parseExpression(nextToken(q), LOWEST), LAMBDA r :
         parseExpressionListLoop(r.p, end, <<r.v>>))

parseArrayLiteral(q) ==
    Bind(parseExpressionList(q, "RBRACKET"), LAMBDA r :
    Res(r.p, ArrayLiteral(q.curToken, r.v)))

\* the for loop of parseHashLiteral, then its end
parseHashLiteralLoop(q, tok, pairs) ==
    IF ~peekTokenIs(q, "RBRACE")
    THEN Bind(parseExpression(nextToken(q), LOWEST), LAMBDA key :
         Bind(expectPeek(key.p, "COLON"), LAMBDA e1 :
         IF ~e1.ok THEN Res(e1.p, NIL)
         ELSE Bind(parseExpression(nextToken(e1.p), LOWEST), LAMBDA value :
              IF peekTokenIs(value.p, "RBRACE")
              THEN parseHashLiteralLoop(value.p, tok,
                                        MapPut(pairs, key.v, value.v))
              ELSE Bind(expectPeek(value.p, "COMMA"), LAMBDA e2 :
                   IF ~e2.ok THEN Res(e2.p, NIL)
                   ELSE parseHashLiteralLoop(
                            e2.p, tok, MapPut(pairs, key.v, value.v))))))
    ELSE Bind(expectPeek(q, "RBRACE"), LAMBDA e :
         IF ~e.ok THEN Res(e.p, NIL) ELSE Res(e.p, HashLiteral(tok, pairs)))

parseHashLiteral(q) == parseHashLiteralLoop(q, q.curToken, <<>>)

parseCallExpression(q, function) ==
    Bind(parseExpressionList(q, "RPAREN"), LAMBDA r :
    Res(r.p, CallExpression(q.curToken, function, r.v)))

parseIndexExpression(q, left) ==
    Bind(parseExpression(nextToken(q), LOWEST), LAMBDA r :
    Bind(expectPeek(r.p, "RBRACKET"), LAMBDA e :
    IF ~e.ok THEN Res(e.p, NIL)
    ELSE Res(e.p, IndexExpression(q.curToken, left, r.v))))

\* the call through p.prefixParseFns[p.curToken.Type]
prefix(q) ==
    CASE q.curToken.Type = "IDENT" -> parseIdentifier(q)
      [] q.curToken.Type = "INT" -> parseIntegerLiteral(q)
      [] q.curToken.Type = "STRING" -> parseStringLiteral(q)
      [] q.curToken.Type \in {"BANG", "MINUS"} -> parsePrefixExpression(q)
      [] q.curToken.Type \in {"TRUE", "FALSE"} -> parseBoolean(q)
      [] q.curToken.Type = "LPAREN" -> parseGroupedExpression(q)
      [] q.curToken.Type = "IF" -> parseIfExpression(q)
      [] q.curToken.Type = "FUNCTION" -> parseFunctionLiteral(q)
      [] q.curToken.Type = "LBRACKET" -> parseArrayLiteral(q)
      [] q.curToken.Type = "LBRACE" -> parseHashLiteral(q)

\* the call through p.infixParseFns[p.curToken.Type]
infix(q, left) ==
    CASE q.curToken.Type = "LPAREN" -> parseCallExpression(q, left)
      [] q.curToken.Type = "LBRACKET" -> parseIndexExpression(q, left)
      [] OTHER -> parseInfixExpression(q, left)

\* the for loop of parseExpression, then its return
parseExpressionLoop(q, leftExp, precedence) ==
    IF ~peekTokenIs(q, "SEMICOLON") /\ precedence < peekPrecedence(q)
    THEN IF q.peekToken.Type \notin infixParseFns
         THEN Res(q, leftExp)
         ELSE Bind(infix(nextToken(q), leftExp), LAMBDA r :
              parseExpressionLoop(r.p, r.v, precedence))
    ELSE Res(q, leftExp)

parseExpression(q, precedence) ==
    IF q.curToken.Type \notin prefixParseFns
    THEN Res(noPrefixParseFnError(q, q.curToken.Type), NIL)
    ELSE Bind(prefix(q), LAMBDA r :
         parseExpressionLoop(r.p, r.v, precedence))

RECURSIVE SkipSemicolons(_)
\* for p.peekTokenIs(token.SEMICOLON) { p.nextToken() }
SkipSemicolons(q) ==
    IF peekTokenIs(q, "SEMICOLON") THEN SkipSemicolons(nextToken(q)) ELSE q

parseLetStatement(q) ==
    Bind(expectPeek(q, "IDENT"), LAMBDA e1 :
    IF ~e1.ok THEN Res(e1.p, NilLetStatement)
    ELSE Bind(expectPeek(e1.p, "ASSIGN"), LAMBDA e2 :
         IF ~e2.ok THEN Res(e2.p, NilLetStatement)
         ELSE Bind(parseExpression(nextToken(e2.p), LOWEST), LAMBDA r :
              Res(SkipSemicolons(r.p),
                  LetStatement(q.curToken, Identifier(e1.p.curToken), r.v)))))

parseReturnStatement(q) ==
    Bind(parseExpression(nextToken(q), LOWEST), LAMBDA r :
    Res(IF peekTokenIs(r.p, "SEMICOLON") THEN nextToken(r.p) ELSE r.p,
        ReturnStatement(q.curToken, NIL, r.v)))

parseExpressionStatement(q) ==
    Bind(parseExpression(q, LOWEST), LAMBDA r :
    Res(IF peekTokenIs(r.p, "SEMICOLON") THEN nextToken(r.p) ELSE r.p,
        ExpressionStatement(q.curToken, r.v)))

parseStatement(q) ==
    CASE q.curToken.Type = "LET" -> parseLetStatement(q)
      [] q.curToken.Type = "RETURN" -> parseReturnStatement(q)
      [] OTHER -> parseExpressionStatement(q)

\* one turn of the for loop of ParseProgram: [p, v], v the statements
ParseProgramIteration(q, statements) ==
    Bind(parseStatement(q), LAMBDA r :
    Res(nextToken(r.p),
        IF r.v # NIL THEN Append(statements, r.v) ELSE statements))

RECURSIVE ParseProgramLoop(_, _)
ParseProgramLoop(q, statements) ==
    IF q.curToken.Type # "EOF"
    THEN Bind(ParseProgramIteration(q, statements), LAMBDA r :
         ParseProgramLoop(r.p, r.v))
    ELSE Res(q, ProgramNode(statements))

ParseProgram(q) == ParseProgramLoop(q, <<>>)

(***************************************************************************)
(* The parser of the earlier revision, src/parser/parser.go.  Its          *)
(* nextToken, curTokenIs, peekTokenIs and peekError are the text of        *)
(* part_001's, so the definitions above serve both; what differs carries   *)
(* the suffix V0.  Its Parser has no history counter.                      *)
(***************************************************************************)
precedencesV0 ==
    ( "EQ" :> EQUALS @@ "NOT_EQ" :> EQUALS @@ "LT" :> LESSGREATER
   @@ "GT" :> LESSGREATER @@ "PLUS" :> SUM @@ "ASTERISK" :> PRODUCT
   @@ "MINUS" :> SUM @@ "SLASH" :> PRODUCT )

prefixParseFnsV0 == {"IDENT", "INT", "BANG", "MINUS"}

infixParseFnsV0 ==
    {"PLUS", "MINUS", "ASTERISK", "SLASH", "EQ", "NOT_EQ", "LT", "GT"}

NewV0(l) ==
    nextToken(nextToken([l |-> l, errors |-> <<>>, curToken |-> ZeroToken,
                         peekToken |-> ZeroToken]))

peekPrecedenceV0(q) ==
    IF q.peekToken.Type \in DOMAIN precedencesV0
    THEN precedencesV0[q.peekToken.Type] ELSE LOWEST

curPrecedenceV0(q) ==
    IF q.curToken.Type \in DOMAIN precedencesV0
    THEN precedencesV0[q.curToken.Type] ELSE LOWEST

\* [p, ok]
expectedPeek(q, t) ==
    IF peekTokenIs(q, t)
    THEN [p |-> nextToken(q), ok |-> TRUE]
    ELSE [p |-> peekError(q, t), ok |-> FALSE]

RECURSIVE parseExpressionV0(_, _)
RECURSIVE parseExpressionLoopV0(_, _, _)

parsePrefixExpressionV0(q) ==
    Bind(parseExpressionV0(nextToken(q), PREFIX), LAMBDA r :
    Res(r.p, PrefixExpression(q.curToken, q.curToken.Literal, r.v)))

parseInfixExpressionV0(q, left) ==
    Bind(parseExpressionV0(nextToken(q), curPrecedenceV0(q)), LAMBDA r :
    Res(r.p, InfixExpression(q.curToken, q.curToken.Literal, left, r.v)))

\* the call through p.prefixParseFns[p.curToken.Type]
prefixV0(q) ==
    CASE q.curToken.Type = "IDENT" -> parseIdentifier(q)
      [] q.curToken.Type = "INT" -> parseIntegerLiteral(q)
      [] q.curToken.Type \in {"BANG", "MINUS"} -> parsePrefixExpressionV0(q)

\* the for loop of parseExpression, then its return
parseExpressionLoopV0(q, leftExp, precedence) ==
    IF ~peekTokenIs(q, "SEMICOLON") /\ precedence < peekPrecedenceV0(q)
    THEN IF q.peekToken.Type \notin infixParseFnsV0
         THEN Res(q, leftExp)
         ELSE Bind(parseInfixExpressionV0(nextToken(q), leftExp), LAMBDA r :
              parseExpressionLoopV0(r.p, r.v, precedence))
    ELSE Res(q, leftExp)

parseExpressionV0(q, precedence) ==
    IF q.curToken.Type \notin prefixParseFnsV0
    THEN Res(noPrefixParseFnError(q, q.curToken.Type), NIL)
    ELSE Bind(prefixV0(q), LAMBDA r :
         parseExpressionLoopV0(r.p, r.v, precedence))

parseExpressionStatementV0(q) ==
    Bind(parseExpressionV0(q, LOWEST), LAMBDA r :
    Res(IF peekTokenIs(r.p, "SEMICOLON") THEN nextToken(r.p) ELSE r.p,
        ExpressionStatement(q.curToken, r.v)))

\* parseLetStatement as far as its for loop: [p, v, loop], loop saying that
\* the loop is reached (v is then the statement under construction)
parseLetStatementV0(q) ==
    Bind(expectedPeek(q, "IDENT"), LAMBDA e1 :
    IF ~e1.ok THEN [p |-> e1.p, v |-> NilLetStatement, loop |-> FALSE]
    ELSE Bind(expectedPeek(e1.p, "ASSIGN"), LAMBDA e2 :
         IF ~e2.ok THEN [p |-> e2.p, v |-> NilLetStatement, loop |-> FALSE]
         ELSE [p |-> e2.p,
               v |-> LetStatement(q.curToken, Identifier(e1.p.curToken), NIL),
               loop |-> TRUE]))

\* parseReturnStatement as far as its for loop
parseReturnStatementV0(q) ==
    Res(nextToken(q), ReturnStatement(q.curToken, NIL, NIL))

(***************************************************************************)
(* The environment, src/unnamed/part_000.  The heap is a sequence of       *)
(* Enviroment objects; a *Enviroment is an index into it, 0 is nil.  A     *)
(* store is a function from the names it binds to their objects.           *)
(***************************************************************************)
NilEnviroment == 0

NilObject == "nil"

EmptyStore == [n \in {} |-> NilObject]

Enviroment(store, outer) == [store |-> store, outer |-> outer]

\* [heap, env]: the heap with the new object, and its address
NewEnvironment(heap) ==
    [heap |-> Append(heap, Enviroment(EmptyStore, NilEnviroment)),
     env |-> Len(heap) + 1]

\* the enclosed environment given a copy of the outer one, made at the call
NewEnclosedEnvironmentCopying(heap, outer) ==
    Bind(Append(heap, Enviroment(heap[outer].store, heap[outer].outer)),
         LAMBDA h :
    [heap |-> Append(h, Enviroment(EmptyStore, Len(h))),
     env |-> Len(h) + 1])

NewEnclosedEnvironment(heap, outer) ==
    Bind(NewEnvironment(heap), LAMBDA r :
    [heap |-> [r.heap EXCEPT ![r.env].outer = outer], env |-> r.env])

RECURSIVE Get(_, _, _)
\* the outer chain searched before the frame itself
GetOuterFirst(heap, e, name) ==
    IF heap[e].outer # NilEnviroment /\ Get(heap, heap[e].outer, name).ok
    THEN Get(heap, heap[e].outer, name)
    ELSE IF name \in DOMAIN heap[e].store
         THEN [obj |-> heap[e].store[name], ok |-> TRUE]
         ELSE [obj |-> NilObject, ok |-> FALSE]

\* [obj, ok]
Get(heap, e, name) ==
    IF name \notin DOMAIN heap[e].store /\ heap[e].outer # NilEnviroment
    THEN Get(heap, heap[e].outer, name)
    ELSE IF name \in DOMAIN heap[e].store
         THEN [obj |-> heap[e].store[name], ok |-> TRUE]
         ELSE [obj |-> NilObject, ok |-> FALSE]

\* a name the outer frame binds and the frame does not, written there
SetWhereBound(heap, e, name, value) ==
    Bind(IF /\ name \notin DOMAIN heap[e].store
            /\ heap[e].outer # NilEnviroment
            /\ name \in DOMAIN heap[heap[e].outer].store
         THEN heap[e].outer ELSE e, LAMBDA f :
    [heap |-> [heap EXCEPT ![f].store =
                  [n \in DOMAIN @ \cup {name} |->
                      IF n = name THEN value ELSE @[n]]],
     v |-> value])

\* [heap, v]: the heap after, and the value returned
Set(heap, e, name, value) ==
    [heap |-> [heap EXCEPT ![e].store =
                  [n \in DOMAIN @ \cup {name} |->
                      IF n = name THEN value ELSE @[n]]],
     v |-> value]

(***************************************************************************)
(* The evaluator, package evaluator of src/main.go.  An object.Object is   *)
(* an address into the heap objects, NilRef Go's nil.  The package         *)
(* variables NULL, TRUE and FALSE hold the addresses of the three objects  *)
(* made when the package is initialised.  An operation returns [objs, v]:  *)
(* the heap after it and the value returned.                               *)
(***************************************************************************)
NilRef == 0

NullObj == [Type |-> "NULL"]

BooleanObj(value) == [Type |-> "BOOLEAN", Value |-> value]

IntegerObj(value) == [Type |-> "INTEGER", Value |-> value]

\* var ( NULL = &object.Null{}; TRUE = ...; FALSE = ... ): NULL is at
\* address 1
TRUEOBJ == 2
FALSEOBJ == 3

PackageObjects == <<NullObj, BooleanObj(TRUE), BooleanObj(FALSE)>>

\* a new Boolean object for every call
nativeBooltoBooleanObjectAllocating(objs, input) ==
    [objs |-> Append(objs, BooleanObj(input)), v |-> Len(objs) + 1]

nativeBooltoBooleanObject(objs, input) ==
    [objs |-> objs, v |-> IF input THEN TRUEOBJ ELSE FALSEOBJ]

RECURSIVE Eval(_, _)
RECURSIVE evalStatements(_, _, _)
Eval(node, objs) ==
    IF node.type = "Program"
    THEN evalStatements(node.Statements, objs, NilRef)
    ELSE IF node.type = "ExpressionStatement"
    THEN Eval(node.Expression, objs)
    ELSE IF node.type = "IntegerLiteral"
    THEN [objs |-> Append(objs, IntegerObj(node.Value)), v |-> Len(objs) + 1]
    ELSE IF node.type = "Boolean"
    THEN nativeBooltoBooleanObject(objs, node.Value)
    ELSE [objs |-> objs, v |-> NilRef]

\* the loop over stmts from its first statement on; result is the value of
\* the variable result so far
evalStatements(stmts, objs, result) ==
    IF stmts = <<>> THEN [objs |-> objs, v |-> result]
    ELSE Bind(Eval(Head(stmts), objs),
              LAMBDA r : evalStatements(Tail(stmts), r.objs, r.v))

(***************************************************************************)
(* The REPL, src/repl/repl.go.  What Start writes is kept as the sequence  *)
(* of the texts given to io.WriteString.                                   *)
(***************************************************************************)
MONKEY_FACE ==
    <<"            __,__\n",
      "   .--.  .-\"     \"-.  .--.\n",
      "  / .. \\/  .-. .-.  \\/ .. \\\n",
      " | |  '|  /   Y   \\  |'  | |\n",
      " | \\   \\  \\ 0 | 0 /  /   / |\n",
      "  \\ '- ,\\.-\"\"\"\"\"\"\"-./, -' /\n",
      "   ''-' /_   ^ ^   _\\ '-''\n",
      "       |  \\._   _./  |\n",
      "       \\   \\ '~' /   /\n",
      "        '._ '-=-' _.'\n",
      "           '-----'\n">>

printParserErrors(w, errors) ==
    w \o <<MONKEY_FACE,
           <<"Woops! We ran into some monkey business here!\n">>,
           <<" parser errors:\n">>>>
      \o [i \in 1..Len(errors) |-> <<"\t">> \o errors[i] \o <<"\n">>]

RECURSIVE Itoa(_)
\* the decimal digits of n >= 0
Itoa(n) ==
    LET digits == <<"0", "1", "2", "3", "4", "5", "6", "7", "8", "9">> IN
    IF n < 10 THEN <<digits[n + 1]>>
    ELSE Itoa(n \div 10) \o <<digits[(n % 10) + 1]>>

\* obj.Inspect()
Inspect(obj) ==
    IF obj.Type = "INTEGER" THEN Itoa(obj.Value)
    ELSE IF obj.Type = "BOOLEAN"
    THEN IF obj.Value THEN <<"t", "r", "u", "e">>
         ELSE <<"f", "a", "l", "s", "e">>
    ELSE <<"n", "u", "l", "l">>

RECURSIVE evalStatementsEnv(_, _, _, _, _)
\* evalStatements with the environment e that Start passes.  The Eval of
\* src/main.go takes no environment; that a let statement binds the value
\* of its expression in e is the LetStatement rule of the specification's
\* evaluator.  Its own value, and every other statement, is what Eval gives
evalStatementsEnv(stmts, objs, heap, e, result) ==
    IF stmts = <<>> THEN [objs |-> objs, heap |-> heap, v |-> result]
    ELSE IF Head(stmts).type = "LetStatement"
    THEN Bind(Eval(Head(stmts).Value, objs),
              LAMBDA r : evalStatementsEnv(Tail(stmts), r.objs,
                             Set(heap, e, Head(stmts).Name.Value, r.v).heap,
                             e, NilRef))
    ELSE Bind(Eval(Head(stmts), objs),
              LAMBDA r : evalStatementsEnv(Tail(stmts), r.objs, heap, e, r.v))

\* evaluator.Eval(program, env) as Start calls it: [objs, heap, v]
EvalEnv(node, objs, heap, e) ==
    evalStatementsEnv(node.Statements, objs, heap, e, NilRef)

\* the program evaluated in an environment made for this one call
StartEvalFreshEnv(node, objs, heap, e) ==
    Bind(NewEnvironment(heap),
         LAMBDA n : EvalEnv(node, objs, n.heap, n.env))

\* evauluated := evaluator.Eval(program, env)
StartEval(node, objs, heap, e) == EvalEnv(node, objs, heap, e)

(***************************************************************************)
(* Inputs: the token streams the lexer hands to the parser.                *)
(***************************************************************************)
\* one token of each kind and literal the inputs are made of
T ==
    [ let |-> Tok("LET", <<"l", "e", "t">>),
      return |-> Tok("RETURN", <<"r", "e", "t", "u", "r", "n">>),
      if |-> Tok("IF", <<"i", "f">>),
      else |-> Tok("ELSE", <<"e", "l", "s", "e">>),
      fn |-> Tok("FUNCTION", <<"f", "n">>),
      true |-> Tok("TRUE", <<"t", "r", "u", "e">>),
      false |-> Tok("FALSE", <<"f", "a", "l", "s", "e">>),
      a |-> Tok("IDENT", <<"a">>),
      b |-> Tok("IDENT", <<"b">>),
      c |-> Tok("IDENT", <<"c">>),
      d |-> Tok("IDENT", <<"d">>),
      e |-> Tok("IDENT", <<"e">>),
      ONE |-> Tok("INT", <<"1">>),
      OCTAL08 |-> Tok("INT", <<"0", "8">>),
      STR |-> Tok("STRING", <<"s">>),
      ILLEGAL |-> Tok("ILLEGAL", <<"@">>),
      ASSIGN |-> Tok("ASSIGN", <<"=">>),
      BANG |-> Tok("BANG", <<"!">>),
      EQ |-> Tok("EQ", <<"=", "=">>),
      NOTEQ |-> Tok("NOT_EQ", <<"!", "=">>),
      PLUS |-> Tok("PLUS", <<"+">>),
      MINUS |-> Tok("MINUS", <<"-">>),
      ASTERISK |-> Tok("ASTERISK", <<"*">>),
      SLASH |-> Tok("SLASH", <<"/">>),
      LT |-> Tok("LT", <<"<">>),
      GT |-> Tok("GT", <<">">>),
      COMMA |-> Tok("COMMA", <<",">>),
      SEMICOLON |-> Tok("SEMICOLON", <<";">>),
      COLON |-> Tok("COLON", <<":">>),
      LPAREN |-> Tok("LPAREN", <<"(">>),
      RPAREN |-> Tok("RPAREN", <<")">>),
      LBRACE |-> Tok("LBRACE", <<"{">>),
      RBRACE |-> Tok("RBRACE", <<"}">>),
      LBRACKET |-> Tok("LBRACKET", <<"[">>),
      RBRACKET |-> Tok("RBRACKET", <<"]">>) ]

BinaryOperators ==
    {T.PLUS, T.MINUS, T.ASTERISK, T.SLASH, T.EQ, T.NOTEQ, T.LT, T.GT}

\* one token of every type the lexer produces (but EOF, which ends a stream)
AllTokens ==
    BinaryOperators \cup
    {T.let, T.return, T.if, T.else, T.fn, T.true, T.false, T.a, T.ONE, T.OCTAL08, T.STR,
     T.ILLEGAL, T.ASSIGN, T.BANG, T.COMMA, T.SEMICOLON, T.COLON, T.LPAREN, T.RPAREN,
     T.LBRACE, T.RBRACE, T.LBRACKET, T.RBRACKET}

TokenTypes == {t.Type : t \in AllTokens} \cup {"EOF"}

RECURSIVE SeqsUpTo(_, _)
\* the sequences over S of length at most n
SeqsUpTo(S, n) ==
    IF n = 0 THEN {<<>>}
    ELSE LET shorter == SeqsUpTo(S, n - 1)
         IN shorter \cup {Append(s, x) : s \in shorter, x \in S}

FreeInputs == SeqsUpTo(AllTokens, MaxTokens)

Operands == <<T.a, T.b, T.c, T.d, T.e, T.a, T.b, T.c, T.d, T.e>>

RECURSIVE ExprInputsOf(_)
\* operand (operator operand)^n, the operands a b c ... in turn
ExprInputsOf(n) ==
    IF n = 0 THEN {<<Operands[1]>>}
    ELSE {e \o <<o, Operands[n + 1]>> : e \in ExprInputsOf(n - 1),
                                         o \in BinaryOperators}

ExprInputs == UNION {ExprInputsOf(n) : n \in 0..MaxOps}

\* statements of every kind, some of them malformed
Statements ==
    { <<T.let, T.a, T.ASSIGN, T.ONE, T.SEMICOLON>>,
      <<T.let, T.a, T.ASSIGN, T.b>>,
      <<T.let, T.ONE>>,
      <<T.let, T.a, T.ONE>>,
      <<T.return, T.a, T.SEMICOLON>>,
      <<T.return, T.a, T.PLUS, T.ONE, T.SEMICOLON>>,
      <<T.return, T.ONE>>,
      <<T.a, T.PLUS, T.ONE, T.SEMICOLON>>,
      <<T.a, T.SEMICOLON>>,
      <<T.MINUS, T.a, T.ASTERISK, T.b>>,
      <<T.BANG, T.true, T.SEMICOLON>>,
      <<T.if, T.LPAREN, T.a, T.RPAREN, T.LBRACE, T.b, T.RBRACE>>,
      <<T.if, T.LPAREN, T.a, T.LT, T.b, T.RPAREN, T.LBRACE, T.a, T.RBRACE,
        T.else, T.LBRACE, T.b, T.RBRACE>>,
      <<T.fn, T.LPAREN, T.a, T.COMMA, T.b, T.RPAREN, T.LBRACE, T.a, T.PLUS, T.b,
        T.RBRACE>>,
      <<T.fn, T.LPAREN, T.RPAREN, T.LBRACE, T.a, T.SEMICOLON, T.b, T.RBRACE>>,
      <<T.fn, T.LPAREN, T.ONE, T.RPAREN, T.LBRACE, T.a, T.RBRACE>>,
      <<T.a, T.LPAREN, T.ONE, T.COMMA, T.b, T.RPAREN>>,
      <<T.LBRACKET, T.a, T.COMMA, T.ONE, T.RBRACKET>>,
      <<T.a, T.LBRACKET, T.ONE, T.RBRACKET>>,
      <<T.LBRACE, T.a, T.COLON, T.ONE, T.COMMA, T.b, T.COLON, T.ONE, T.RBRACE>>,
      <<T.LPAREN, T.a>>,
      <<T.STR>> }

RECURSIVE Flatten(_)
Flatten(ss) == IF ss = <<>> THEN <<>> ELSE Head(ss) \o Flatten(Tail(ss))

ProgramInputs == {Flatten(ss) : ss \in SeqsUpTo(Statements, MaxStmts)}

PrefixOperators == {T.BANG, T.MINUS}

\* expressions that mix a prefix operator, a call or an index with a binary
\* operator or with each other, each with its fully parenthesised text
BindingCases ==
    LET L(t) == t.Literal
        Case(input, parts) == [input |-> input, text |-> Flatten(parts)]
    IN  {Case(<<pre, T.a, op, T.b>>,
              <<<<"(", "(">>, L(pre), <<"a", ")", " ">>, L(op),
                <<" ", "b", ")">>>>) :
            pre \in PrefixOperators, op \in BinaryOperators}
   \cup {Case(<<pre, T.a, T.LPAREN, T.b, T.RPAREN>>,
              <<<<"(">>, L(pre), <<"a", "(", "b", ")", ")">>>>) :
            pre \in PrefixOperators}
   \cup {Case(<<pre, T.a, T.LBRACKET, T.ONE, T.RBRACKET>>,
              <<<<"(">>, L(pre), <<"(", "a", "[", "1", "]", ")", ")">>>>) :
            pre \in PrefixOperators}
   \cup {Case(<<T.a, op, T.b, T.LBRACKET, T.ONE, T.RBRACKET>>,
              <<<<"(", "a", " ">>, L(op),
                <<" ", "(", "b", "[", "1", "]", ")", ")">>>>) :
            op \in BinaryOperators}
   \cup {Case(<<T.a, op, T.b, T.LPAREN, T.c, T.RPAREN>>,
              <<<<"(", "a", " ">>, L(op),
                <<" ", "b", "(", "c", ")", ")">>>>) :
            op \in BinaryOperators}
   \cup {Case(<<T.a, T.LBRACKET, T.ONE, T.RBRACKET, op, T.b>>,
              <<<<"(", "(", "a", "[", "1", "]", ")", " ">>, L(op),
                <<" ", "b", ")">>>>) :
            op \in BinaryOperators}
   \cup {Case(<<T.a, T.LPAREN, T.b, T.RPAREN, op, T.c>>,
              <<<<"(", "a", "(", "b", ")", " ">>, L(op),
                <<" ", "c", ")">>>>) :
            op \in BinaryOperators}
   \cup {Case(<<T.a, T.PLUS, T.b, T.LPAREN, T.c, T.RPAREN, T.ASTERISK, T.d>>,
              <<<<"(", "a", " ", "+", " ", "(", "b", "(", "c", ")", " ", "*",
                  " ", "d", ")", ")">>>>)}

BindingInputs == {c.input : c \in BindingCases}

\* statements that end where the next one begins, whatever follows
BlockStatements ==
    { <<T.a, T.SEMICOLON>>,
      <<T.b>>,
      <<T.let, T.a, T.ASSIGN, T.ONE, T.SEMICOLON>>,
      <<T.return, T.a, T.SEMICOLON>> }

BlockBodies == SeqsUpTo(BlockStatements, MaxBlockStmts)

\* "{" body "}" and, unterminated, "{" body
BlockInputs ==
    {<<T.LBRACE>> \o Flatten(ss) \o <<T.RBRACE>> : ss \in BlockBodies}
        \cup {<<T.LBRACE>> \o Flatten(ss) : ss \in BlockBodies}

(***************************************************************************)
(* The state machine of the parser of part_001.                            *)
(***************************************************************************)
NoCall == [op |-> "none"]
NotPrinted == [done |-> FALSE, text |-> <<>>, again |-> <<>>]
NotReparsed == [done |-> FALSE, errors |-> <<>>, text |-> <<>>]

\* the variables of the other machines, at rest
Parser0Idle ==
    /\ p0 = NewV0(LexerOf(<<>>))
    /\ program0 = ProgramNode(<<>>)
    /\ stmt0 = NIL
    /\ pc0 = "idle"

EnvIdle ==
    /\ envs = <<>>
    /\ last = [op |-> "none"]

EvalIdle ==
    /\ objects = PackageObjects
    /\ evaluated = [calls |-> 0, node |-> NIL, v |-> NilRef, before |-> <<>>]

ReplIdle ==
    /\ env = NilEnviroment
    /\ out = <<>>
    /\ rpc = "idle"
    /\ lines = <<>>

ParserIdle ==
    /\ p = New(LexerOf(<<>>))
    /\ program = ProgramNode(<<>>)
    /\ pc = "idle"
    /\ call = NoCall
    /\ printed = NotPrinted
    /\ reparsed = NotReparsed

\* parser.New(lexer.New(input)) has returned and ParseProgram has made its
\* empty Program
InitOn(inputs) ==
    /\ p \in {New(LexerOf(input)) : input \in inputs}
    /\ program = ProgramNode(<<>>)
    /\ pc = "loop"
    /\ call = NoCall
    /\ printed = NotPrinted
    /\ reparsed = NotReparsed
    /\ Parser0Idle
    /\ EnvIdle
    /\ EvalIdle
    /\ ReplIdle

Init == InitOn(FreeInputs \cup ProgramInputs)

\* one turn of ParseProgram's loop
ParseProgramStep ==
    /\ pc = "loop"
    /\ p.curToken.Type # "EOF"
    /\ \E r \in {ParseProgramIteration(p, program.Statements)} :
          /\ p' = r.p
          /\ program' = ProgramNode(r.v)
    /\ UNCHANGED <<pc, call, printed, reparsed, parser0Vars, envVars, evalVars, replVars>>

\* ParseProgram's loop ends and it returns the program
ParseProgramReturn ==
    /\ pc = "loop"
    /\ p.curToken.Type = "EOF"
    /\ pc' = "returned"
    /\ UNCHANGED <<p, program, call, printed, reparsed, parser0Vars, envVars, evalVars, replVars>>

MapOrders == Permutations(1..MaxPairs)

OrderSeqs == {[i \in 1..MaxPairs |-> f[i]] : f \in MapOrders}

\* program.String()
ProgramString ==
    /\ pc = "returned"
    /\ \E ord \in OrderSeqs :
          printed' = [done |-> TRUE, text |-> String(program, ord),
                      again |-> <<>>]
    /\ pc' = "printed"
    /\ UNCHANGED <<p, program, call, reparsed, parser0Vars, envVars, evalVars, replVars>>

\* program.String() called a second time on the same program
ProgramStringAgain ==
    /\ pc = "printed"
    /\ \E ord \in OrderSeqs :
          printed' = [printed EXCEPT !.again = String(program, ord)]
    /\ pc' = "printed twice"
    /\ UNCHANGED <<p, program, call, reparsed, parser0Vars, envVars, evalVars, replVars>>

\* the printed text parsed by a new lexer and parser, and printed again
Reparse ==
    /\ pc = "printed"
    /\ printed.text # PANIC
    /\ \E r \in {ParseProgram(New(NewLexer(printed.text)))} :
       \E ord \in OrderSeqs :
             reparsed' = [done |-> TRUE, errors |-> r.p.errors,
                          text |-> String(r.v, ord)]
    /\ pc' = "reparsed"
    /\ UNCHANGED <<p, program, call, printed, parser0Vars, envVars, evalVars, replVars>>

Next ==
    \/ ParseProgramStep
    \/ ParseProgramReturn
    \/ ProgramString
    \/ ProgramStringAgain
    \/ Reparse

Spec == Init /\ [][Next]_vars

(***************************************************************************)
(* Single operations of the parser, each called once on a parser that      *)
(* stands anywhere in its token stream, statements parsed before it or     *)
(* not.  call records the operation, its argument, the parser before and   *)
(* after and the value returned.                                           *)
(***************************************************************************)
Called(op, arg, before, after, result) ==
    [op |-> op, arg |-> arg, before |-> before, after |-> after,
     result |-> result]

\* the token types the parser's functions pass to expectPeek
ExpectedTypes ==
    {"IDENT", "ASSIGN", "LPAREN", "RPAREN", "LBRACE", "RBRACE", "RBRACKET",
     "COLON", "COMMA"}

\* p.nextToken(), to reach a parser further along its stream
CallNextToken ==
    /\ pc = "loop"
    /\ p.curToken.Type # "EOF"
    /\ p' = nextToken(p)
    /\ UNCHANGED <<program, pc, call, printed, reparsed, parser0Vars, envVars, evalVars, replVars>>

\* p.expectPeek(t)
CallExpectPeek ==
    /\ pc = "loop"
    /\ \E t \in ExpectedTypes :
       \E r \in {expectPeek(p, t)} :
          /\ p' = r.p
          /\ call' = Called("expectPeek", t, p, r.p, r.ok)
    /\ pc' = "called"
    /\ UNCHANGED <<program, printed, reparsed, parser0Vars, envVars, evalVars, replVars>>

\* p.expectedPeek(t) of parser.go, whose Parser has the same l, errors,
\* curToken and peekToken and is in the same state after New
CallExpectedPeek ==
    /\ pc = "loop"
    /\ \E t \in ExpectedTypes :
       \E r \in {expectedPeek(p, t)} :
          /\ p' = r.p
          /\ call' = Called("expectedPeek", t, p, r.p, r.ok)
    /\ pc' = "called"
    /\ UNCHANGED <<program, printed, reparsed, parser0Vars, envVars, evalVars, replVars>>

\* p.parseExpression(precedence)
CallParseExpression ==
    /\ pc = "loop"
    /\ \E precedence \in LOWEST..PREFIX :
       \E r \in {parseExpression(p, precedence)} :
          /\ p' = r.p
          /\ call' = Called("parseExpression", precedence, p, r.p, r.v)
    /\ pc' = "called"
    /\ UNCHANGED <<program, printed, reparsed, parser0Vars, envVars, evalVars, replVars>>

\* p.parseBlockStatement(); its callers have just expected the "{"
CallParseBlockStatement ==
    /\ pc = "loop"
    /\ curTokenIs(p, "LBRACE")
    /\ \E r \in {parseBlockStatement(p)} :
          /\ p' = r.p
          /\ call' = Called("parseBlockStatement", NIL, p, r.p, r.v)
    /\ pc' = "called"
    /\ UNCHANGED <<program, printed, reparsed, parser0Vars, envVars, evalVars, replVars>>

\* the first statement parsed by ParseProgram, to reach a parser that has
\* recorded errors
FirstStatement ==
    /\ program.Statements = <<>>
    /\ ParseProgramStep

UnitInit == InitOn(FreeInputs \cup Statements)

UnitNext ==
    \/ FirstStatement
    \/ CallNextToken
    \/ CallExpectPeek
    \/ CallExpectedPeek
    \/ CallParseExpression

UnitSpec == UnitInit /\ [][UnitNext]_vars

\* the same calls on expressions and blocks
ExprInit == InitOn(ExprInputs \cup BlockInputs \cup BindingInputs)

ExprNext ==
    \/ CallNextToken
    \/ CallParseExpression
    \/ CallParseBlockStatement

ExprSpec == ExprInit /\ [][ExprNext]_vars

(***************************************************************************)
(* The state machine of the parser of parser.go.  The for loops of         *)
(* parseLetStatement and parseReturnStatement take one step per turn.      *)
(***************************************************************************)
InitV0 ==
    /\ p0 \in {NewV0(LexerOf(input)) : input \in FreeInputs \cup ProgramInputs}
    /\ program0 = ProgramNode(<<>>)
    /\ stmt0 = NIL
    /\ pc0 = "loop"
    /\ ParserIdle
    /\ EnvIdle
    /\ EvalIdle
    /\ ReplIdle

\* ParseProgram's loop from a statement returned to the next turn
StatementDoneV0(q, stmt) ==
    /\ program0' = ProgramNode(IF stmt # NIL
                               THEN Append(program0.Statements, stmt)
                               ELSE program0.Statements)
    /\ p0' = nextToken(q)
    /\ stmt0' = NIL
    /\ pc0' = "loop"

\* a turn of ParseProgram's loop at a let: parseLetStatement to its loop
LetStatementV0 ==
    /\ pc0 = "loop"
    /\ curTokenIs(p0, "LET")
    /\ \E r \in {parseLetStatementV0(p0)} :
          IF r.loop
          THEN /\ p0' = r.p
               /\ stmt0' = r.v
               /\ pc0' = "parseLetStatement"
               /\ UNCHANGED program0
          ELSE StatementDoneV0(r.p, r.v)
    /\ UNCHANGED <<parserVars, envVars, evalVars, replVars>>

\* a turn of ParseProgram's loop at a return: parseReturnStatement to its loop
ReturnStatementV0 ==
    /\ pc0 = "loop"
    /\ curTokenIs(p0, "RETURN")
    /\ \E r \in {parseReturnStatementV0(p0)} :
          /\ p0' = r.p
          /\ stmt0' = r.v
          /\ pc0' = "parseReturnStatement"
    /\ UNCHANGED <<program0, parserVars, envVars, evalVars, replVars>>

\* a turn of ParseProgram's loop at any other token
ExpressionStatementV0 ==
    /\ pc0 = "loop"
    /\ p0.curToken.Type \notin {"EOF", "LET", "RETURN"}
    /\ \E r \in {parseExpressionStatementV0(p0)} : StatementDoneV0(r.p, r.v)
    /\ UNCHANGED <<parserVars, envVars, evalVars, replVars>>

\* for !p.curTokenIs(token.SEMICOLON) { p.nextToken() }: one turn
SkipV0 ==
    /\ pc0 \in {"parseLetStatement", "parseReturnStatement"}
    /\ ~curTokenIs(p0, "SEMICOLON")
    /\ p0' = nextToken(p0)
    /\ UNCHANGED <<program0, stmt0, pc0, parserVars, envVars, evalVars, replVars>>

\* the loop ends at a semicolon and the statement is returned
SkipDoneV0 ==
    /\ pc0 \in {"parseLetStatement", "parseReturnStatement"}
    /\ curTokenIs(p0, "SEMICOLON")
    /\ StatementDoneV0(p0, stmt0)
    /\ UNCHANGED <<parserVars, envVars, evalVars, replVars>>

ParseProgramReturnV0 ==
    /\ pc0 = "loop"
    /\ curTokenIs(p0, "EOF")
    /\ pc0' = "returned"
    /\ UNCHANGED <<p0, program0, stmt0, parserVars, envVars, evalVars, replVars>>

NextV0 ==
    \/ LetStatementV0
    \/ ReturnStatementV0
    \/ ExpressionStatementV0
    \/ SkipV0
    \/ SkipDoneV0
    \/ ParseProgramReturnV0

SpecV0 == InitV0 /\ [][NextV0]_vars

(***************************************************************************)
(* The state machine of the environments: a program allocates              *)
(* environments, enclosed or not, and sets and gets names in them.         *)
(***************************************************************************)
Names == {"x", "y"}

Objects == {"1", "2"}

EnvInit ==
    /\ envs = <<>>
    /\ last = [op |-> "none"]
    /\ ParserIdle
    /\ Parser0Idle
    /\ EvalIdle
    /\ ReplIdle

CallNewEnvironment ==
    /\ Len(envs) < MaxEnvs
    /\ \E r \in {NewEnvironment(envs)} :
          /\ envs' = r.heap
          /\ last' = [op |-> "NewEnvironment", env |-> r.env]
    /\ UNCHANGED <<parserVars, parser0Vars, evalVars, replVars>>

CallNewEnclosedEnvironment ==
    /\ Len(envs) < MaxEnvs
    /\ \E outer \in 1..Len(envs) :
       \E r \in {NewEnclosedEnvironment(envs, outer)} :
          /\ envs' = r.heap
          /\ last' = [op |-> "NewEnclosedEnvironment", env |-> r.env,
                      outer |-> outer]
    /\ UNCHANGED <<parserVars, parser0Vars, evalVars, replVars>>

CallGet ==
    /\ \E e \in 1..Len(envs), name \in Names :
       \E r \in {Get(envs, e, name)} :
          last' = [op |-> "Get", env |-> e, name |-> name, obj |-> r.obj,
                   ok |-> r.ok]
    /\ UNCHANGED <<envs, parserVars, parser0Vars, evalVars, replVars>>

\* the number of names bound in the heap
Bindings(heap) ==
    Cardinality({<<e, n>> \in (1..Len(heap)) \X Names :
                    n \in DOMAIN heap[e].store})

CallSet ==
    /\ \E e \in 1..Len(envs), name \in Names, value \in Objects :
       \E r \in {Set(envs, e, name, value)} :
          /\ Bindings(r.heap) <= MaxBindings
          /\ envs' = r.heap
          /\ last' = [op |-> "Set", env |-> e, name |-> name,
                      value |-> value, v |-> r.v]
    /\ UNCHANGED <<parserVars, parser0Vars, evalVars, replVars>>

EnvNext ==
    \/ CallNewEnvironment
    \/ CallNewEnclosedEnvironment
    \/ CallGet
    \/ CallSet

EnvSpec == EnvInit /\ [][EnvNext]_vars

(***************************************************************************)
(* The state machine of the evaluator: a program is parsed and, when the   *)
(* parser recorded no error, Eval is called on the program or on a node    *)
(* of it.                                                                  *)
(***************************************************************************)
EvalStatements ==
    { <<T.ONE, T.SEMICOLON>>,
      <<T.true, T.SEMICOLON>>,
      <<T.false, T.SEMICOLON>>,
      <<T.a, T.SEMICOLON>>,
      <<T.let, T.a, T.ASSIGN, T.ONE, T.SEMICOLON>>,
      <<T.return, T.ONE, T.SEMICOLON>>,
      <<T.return, T.true, T.SEMICOLON>>,
      <<T.BANG, T.true, T.SEMICOLON>>,
      <<T.ONE, T.PLUS, T.ONE, T.SEMICOLON>> }

EvalInputs == {Flatten(ss) : ss \in SeqsUpTo(EvalStatements, MaxStmts)}

\* the expression a statement holds
ExpressionOf(stmt) ==
    IF stmt.type = "LetStatement" THEN stmt.Value
    ELSE IF stmt.type = "ReturnStatement" THEN stmt.ReturnValue
    ELSE stmt.Expression

\* the operands of a prefix or infix expression
OperandsOf(e) ==
    IF e.type = "PrefixExpression" THEN {e.Right}
    ELSE IF e.type = "InfixExpression" THEN {e.Left, e.Right}
    ELSE {}

\* the program, its statements, their expressions and these's operands
NodesOf(prog) ==
    LET stmts == {prog.Statements[i] : i \in 1..Len(prog.Statements)}
        exprs == {ExpressionOf(stmt) : stmt \in stmts}
    IN {prog} \cup stmts \cup exprs \cup UNION {OperandsOf(e) : e \in exprs}

EvalInit == InitOn(EvalInputs)

\* Eval(node)
CallEval ==
    /\ pc = "returned"
    /\ Len(p.errors) = 0
    /\ evaluated.calls < MaxEvals
    /\ \E node \in NodesOf(program) :
       \E r \in {Eval(node, objects)} :
          /\ objects' = r.objs
          /\ evaluated' = [calls |-> evaluated.calls + 1, node |-> node,
                           v |-> r.v, before |-> objects]
    /\ UNCHANGED <<parserVars, parser0Vars, envVars, replVars>>

EvalNext ==
    \/ ParseProgramStep
    \/ ParseProgramReturn
    \/ CallEval

EvalSpec == EvalInit /\ [][EvalNext]_vars

(***************************************************************************)
(* The state machine of repl.Start.  A line is the token stream the lexer  *)
(* makes of it.  lines keeps, for every line handled, its tokens, the      *)
(* errors of its parser and the program parsed.                            *)
(***************************************************************************)
ReplLines ==
    { <<>>,
      <<T.ONE, T.SEMICOLON>>,
      <<T.true>>,
      <<T.let, T.a, T.ASSIGN, T.ONE, T.SEMICOLON>>,
      <<T.let, T.a, T.ASSIGN, T.true, T.SEMICOLON>>,
      <<T.let, T.b, T.ASSIGN, T.OCTAL08 >>,
      <<T.let, T.b, T.ASSIGN, T.false, T.SEMICOLON, T.ONE>>,
      <<T.let, T.ONE, T.RPAREN>> }

\* Start has been called
ReplInit ==
    /\ env = NilEnviroment
    /\ out = <<>>
    /\ rpc = "start"
    /\ lines = <<>>
    /\ ParserIdle
    /\ Parser0Idle
    /\ EnvIdle
    /\ EvalIdle

\* env := object.NewEnvironment()
StartNewEnvironment ==
    /\ rpc = "start"
    /\ \E r \in {NewEnvironment(envs)} :
          /\ envs' = r.heap
          /\ env' = r.env
    /\ rpc' = "prompt"
    /\ UNCHANGED <<out, lines, last, parserVars, parser0Vars, evalVars>>

\* scanner.Scan() gives a line; l := lexer.New(line); p := parser.New(l)
StartScan ==
    /\ rpc = "prompt"
    /\ Len(lines) < MaxLines
    /\ \E line \in ReplLines :
          p' = New(LexerOf(line))
    /\ program' = ProgramNode(<<>>)
    /\ rpc' = "scanned"
    /\ UNCHANGED <<pc, call, printed, reparsed, env, out, lines,
                   parser0Vars, envVars, evalVars>>

\* program := p.ParseProgram()
StartParseProgram ==
    /\ rpc = "scanned"
    /\ \E r \in {ParseProgram(p)} :
          /\ p' = r.p
          /\ program' = r.v
    /\ rpc' = "parsed"
    /\ UNCHANGED <<pc, call, printed, reparsed, env, out, lines,
                   parser0Vars, envVars, evalVars>>

\* if len(p.Errors()) != 0 { printParserErrors(out, p.Errors()); continue }
StartPrintParserErrors ==
    /\ rpc = "parsed"
    /\ Len(p.errors) # 0
    /\ out' = printParserErrors(out, p.errors)
    /\ lines' = Append(lines, [errors |-> p.errors, program |-> program])
    /\ rpc' = "prompt"
    /\ UNCHANGED <<env, parserVars, parser0Vars, envVars, evalVars>>

\* evauluated := evaluator.Eval(program, env)
\* if evauluated != nil { io.WriteString(out, evauluated.Inspect()); ... }
StartEvaluate ==
    /\ rpc = "parsed"
    /\ Len(p.errors) = 0
    /\ \E r \in {StartEval(program, objects, envs, env)} :
          /\ objects' = r.objs
          /\ envs' = r.heap
          /\ evaluated' = [calls |-> evaluated.calls + 1, node |-> program,
                           v |-> r.v, before |-> objects]
          /\ out' = IF r.v # NilRef
                     THEN out \o <<Inspect(r.objs[r.v]), <<"\n">>>>
                     ELSE out
    /\ lines' = Append(lines, [errors |-> p.errors, program |-> program])
    /\ rpc' = "prompt"
    /\ UNCHANGED <<env, last, parserVars, parser0Vars>>

\* scanner.Scan() returns false: the input is closed
StartReturn ==
    /\ rpc = "prompt"
    /\ rpc' = "returned"
    /\ UNCHANGED <<env, out, lines, parserVars, parser0Vars, envVars,
                   evalVars>>

ReplNext ==
    \/ StartNewEnvironment
    \/ StartScan
    \/ StartParseProgram
    \/ StartPrintParserErrors
    \/ StartEvaluate
    \/ StartReturn

ReplSpec == ReplInit /\ [][ReplNext]_vars

(***************************************************************************)
(* Properties.                                                             *)
(***************************************************************************)
\* the tokens a parser has still to parse, from its current token on
Stream(q) ==
    SelectSeq(<<q.curToken, q.peekToken>>
                  \o SubSeq(q.l.input, q.l.position, Len(q.l.input)),
              LAMBDA t : t.Type # "EOF")

IsPrefix(s, t) == Len(s) <= Len(t) /\ SubSeq(t, 1, Len(s)) = s

InLoopV0 == pc0 \in {"parseLetStatement", "parseReturnStatement"}

\* C1: ParseProgram terminates on every finite token sequence, a let or
\* return statement without a semicolon before the end of input included.
\* Every step of ParseProgram outside the for loops of parseLetStatement
\* and parseReturnStatement consumes input or returns, so it terminates
\* iff in those loops a turn can always change the parser or leave the
\* loop.  Stated for the parser of parser.go.
C1_ParseProgramTerminates == InLoopV0 => ENABLED <<SkipV0 \/ SkipDoneV0>>_vars

\* C1: the loop is reached with no semicolon left in the input
C1_LoopWithoutSemicolon ==
    /\ InLoopV0
    /\ \A i \in 1..Len(Stream(p0)) : Stream(p0)[i].Type # "SEMICOLON"

\* the binding strength the language gives a binary operator
Rank(operator) ==
    CASE operator \in {<<"*">>, <<"/">>} -> 4
      [] operator \in {<<"+">>, <<"-">>} -> 3
      [] operator \in {<<"<">>, <<">">>} -> 2
      [] operator \in {<<"=", "=">>, <<"!", "=">>} -> 1

\* operand (operator operand)*, the operands identifiers
IsBinaryExpression(ts) ==
    /\ Len(ts) % 2 = 1
    /\ \A i \in 1..Len(ts) :
          IF i % 2 = 1 THEN ts[i].Type = "IDENT" ELSE ts[i] \in BinaryOperators

RECURSIVE Grouped(_)
\* below an operator, nothing weaker on its left and nothing weaker or
\* equal on its right
Grouped(e) ==
    e.type = "InfixExpression" =>
        /\ e.Left.type = "InfixExpression" =>
               Rank(e.Left.Operator) >= Rank(e.Operator)
        /\ e.Right.type = "InfixExpression" =>
               Rank(e.Right.Operator) > Rank(e.Operator)
        /\ Grouped(e.Left)
        /\ Grouped(e.Right)

RECURSIVE InOrder(_)
\* the tokens of an expression tree from left to right
InOrder(e) ==
    IF e.type = "InfixExpression"
    THEN InOrder(e.Left) \o <<e.Token>> \o InOrder(e.Right)
    ELSE <<e.Token>>

\* C2: parseExpression(LOWEST) on operands joined by + - * / == != < >
\* builds the tree over exactly those tokens in which a higher-precedence
\* operator binds tighter than its neighbour and equal precedences group
\* to the left.
C2_PrecedenceAndLeftAssociativity ==
    /\ call.op = "parseExpression"
    /\ call.arg = LOWEST
    /\ IsBinaryExpression(Stream(call.before))
    => /\ Grouped(call.result)
       /\ InOrder(call.result) = Stream(call.before)

\* C2: a + b * c - d has been parsed as ((a + (b * c)) - d)
C2_Witness ==
    /\ call.op = "parseExpression"
    /\ call.arg = LOWEST
    /\ Stream(call.before) = <<T.a, T.PLUS, T.b, T.ASTERISK, T.c, T.MINUS, T.d>>
    /\ call.result.Operator = <<"-">>
    /\ call.result.Left.Operator = <<"+">>
    /\ call.result.Left.Right.Operator = <<"*">>

\* C3: parseBlockStatement, entered at "{", collects every statement up to
\* the closing "}" (or EOF) in order and returns with the current token at
\* that "}" (or EOF); a block of two or more statements keeps them all.
C3_BlockKeepsEveryStatement ==
    call.op = "parseBlockStatement" =>
        /\ call.after.curToken.Type \in {"RBRACE", "EOF"}
        /\ \A ss \in BlockBodies :
              Stream(call.before) \in
                  {<<T.LBRACE>> \o Flatten(ss) \o <<T.RBRACE>>,
                   <<T.LBRACE>> \o Flatten(ss)}
              => Len(call.result.Statements) = Len(ss)

\* C3: parseBlockStatement has been called on { a; b }
C3_TwoStatementBlock ==
    /\ call.op = "parseBlockStatement"
    /\ Stream(call.before) = <<T.LBRACE, T.a, T.SEMICOLON, T.b, T.RBRACE>>

Parsed == pc \in {"returned", "printed", "reparsed"}

\* the return statements with an expression in the parsed program
ReturnStatements ==
    {i \in 1..Len(program.Statements) :
        /\ program.Statements[i].type = "ReturnStatement"
        /\ program.Statements[i].ReturnValue # NIL}

\* C4: the String() of a return statement parsed from "return <expr>;" is
\* "return <value>;", <value> the pretty-print of the expression that
\* parseReturnStatement parsed and stored.
C4_ReturnPrintsParsedExpression ==
    Parsed =>
        \A i \in ReturnStatements : \A ord \in OrderSeqs :
            String(program.Statements[i], ord) =
                Cat(<<<<"r", "e", "t", "u", "r", "n", " ">>,
                      String(program.Statements[i].ReturnValue, ord),
                      <<";">>>>)

\* C4: "return a;" has been parsed and printed
C4_ReturnParsed ==
    /\ pc = "printed"
    /\ p.errors = <<>>
    /\ ReturnStatements = {1}
    /\ program.Statements[1].ReturnValue = Identifier(T.a)

\* C5: for a program that parses with no errors, parsing its String()
\* yields no errors and a program whose String() is that same string.
C5_PrettyPrintRoundTrip ==
    pc = "reparsed" /\ p.errors = <<>> =>
        /\ reparsed.errors = <<>>
        /\ reparsed.text = printed.text

\* C5: a program of one statement parsed with no errors, printed and parsed
\* again
C5_Reparsed ==
    /\ pc = "reparsed"
    /\ p.errors = <<>>
    /\ Len(program.Statements) = 1

\* the token the lexer hands out next
Upcoming(l) == IF l.position <= Len(l.input) THEN l.input[l.position]
               ELSE EOFToken

\* C6: expectPeek(kind) (expectedPeek in parser.go): with the peek token of
\* that kind it advances exactly one token, returns true and leaves the
\* errors alone; otherwise it returns false, appends the one message
\* "expected next token to be <kind>, got <actual kind> instead" and leaves
\* the current and peek tokens where they were.
C6_ExpectPeekFrame ==
    call.op \in {"expectPeek", "expectedPeek"} =>
        IF call.before.peekToken.Type = call.arg
        THEN /\ call.result = TRUE
             /\ call.after.curToken = call.before.peekToken
             /\ call.after.peekToken = Upcoming(call.before.l)
             /\ Stream(call.after) = Tail(Stream(call.before))
             /\ call.after.errors = call.before.errors
        ELSE /\ call.result = FALSE
             /\ call.after.errors =
                    Append(call.before.errors,
                           <<"expected next token to be ", call.arg, ", got ",
                             call.before.peekToken.Type, " instead">>)
             /\ call.after.curToken = call.before.curToken
             /\ call.after.peekToken = call.before.peekToken
             /\ call.after.l = call.before.l

\* C6: expectPeek has failed on a parser that already held an error
C6_FailedAfterError ==
    /\ call.op = "expectPeek"
    /\ call.result = FALSE
    /\ call.before.errors # <<>>
    /\ Len(call.after.errors) = Len(call.before.errors) + 1

\* C7, in a state: ParseProgram returns only with the input parsed to EOF,
\* errors or not, and the errors are at least the failed expectPeek calls
C7_State ==
    Parsed =>
        /\ p.curToken.Type = "EOF"
        /\ Stream(p) = <<>>
        /\ Len(p.errors) >= p.failedPeeks

\* C7, in a step: messages are only ever appended
C7_Step == IsPrefix(p.errors, p'.errors)

\* C7: ParseProgram never stops at the first error: it goes on to EOF,
\* messages are only ever appended to the error list, and the final list
\* holds at least as many messages as expectPeek calls failed.
C7_ErrorsAccumulate == [](C7_State) /\ [][C7_Step]_vars

\* C7: ParseProgram has returned after two failed expectPeek calls in two
\* statements, with statements parsed after the first of them
C7_TwoErrors ==
    /\ pc = "returned"
    /\ p.failedPeeks = 2
    /\ Len(p.errors) = 2
    /\ p.errors[1] # p.errors[2]
    /\ Len(program.Statements) >= 3

\* the kinds of token without a prefix handler
NoPrefixKinds ==
    {"EOF", "ILLEGAL", "SEMICOLON", "COMMA", "COLON", "ASSIGN", "RPAREN",
     "RBRACE", "RBRACKET", "ELSE", "LET", "RETURN", "PLUS", "ASTERISK",
     "SLASH", "EQ", "NOT_EQ", "LT", "GT"}

\* C8: parseExpression at a token without a prefix handler appends the one
\* message "no prefix parse function for token '<kind>' found", returns an
\* absent expression and consumes no token.
C8_NoPrefixHandler ==
    /\ call.op = "parseExpression"
    /\ call.before.curToken.Type \in NoPrefixKinds
    => /\ call.after.errors =
              Append(call.before.errors,
                     <<"no prefix parse function for token '",
                       call.before.curToken.Type, "' found">>)
       /\ call.result = NIL
       /\ call.after.curToken = call.before.curToken
       /\ call.after.peekToken = call.before.peekToken
       /\ call.after.l = call.before.l

\* C8: parseExpression has been called at a "}" on a parser that already
\* held an error
C8_CalledAtRBrace ==
    /\ call.op = "parseExpression"
    /\ call.before.curToken.Type = "RBRACE"
    /\ call.before.errors # <<>>

RECURSIVE Chain(_, _)
\* the frames from e outwards
Chain(heap, e) ==
    IF e = NilEnviroment THEN <<>>
    ELSE <<e>> \o Chain(heap, heap[e].outer)

\* the frames of the chain of e that bind name, nearest first
Binders(heap, e, name) ==
    SelectSeq(Chain(heap, e), LAMBDA f : name \in DOMAIN heap[f].store)

C9_Step ==
    last'.op = "Get" =>
        /\ envs' = envs
        /\ last'.ok = (Binders(envs, last'.env, last'.name) # <<>>)
        /\ last'.ok =>
               last'.obj =
                   envs[Binders(envs, last'.env, last'.name)[1]]
                       .store[last'.name]

\* C9: Get(name) returns, with found = true, the binding of the nearest
\* frame of the chain that binds name; it returns found = false only when
\* no frame of the chain binds it; and it changes no frame.
C9_GetNearestBinding == [][C9_Step]_vars

\* C9: Get has found a name that the frame itself does not bind and that
\* its outer and its outer's outer bind to different objects
C9_FoundInOuter ==
    /\ last.op = "Get"
    /\ last.ok
    /\ Len(Chain(envs, last.env)) = 3
    /\ Binders(envs, last.env, last.name) = Tail(Chain(envs, last.env))
    /\ last.obj # envs[Chain(envs, last.env)[3]].store[last.name]

C10_Step ==
    last'.op = "Set" =>
        /\ Len(envs') = Len(envs)
        /\ \A f \in 1..Len(envs) : f # last'.env => envs'[f] = envs[f]
        /\ envs'[last'.env].outer = envs[last'.env].outer
        /\ \A n \in Names \ {last'.name} :
              Get(envs', last'.env, n) = Get(envs, last'.env, n)
        /\ \A i \in 2..Len(Chain(envs, last'.env)) : \A n \in Names :
              Get(envs', Chain(envs, last'.env)[i], n) =
                  Get(envs, Chain(envs, last'.env)[i], n)
        /\ Get(envs', last'.env, last'.name) =
               [obj |-> last'.value, ok |-> TRUE]
        /\ last'.v = last'.value

\* C10: Set(name, v) changes only the frame it is called on: every other
\* frame is as it was, Get(name) on an outer environment returns what it
\* returned before, and Get(name) on the environment set returns v, also
\* when an outer frame already binds name.
C10_SetWritesCurrentFrame == [][C10_Step]_vars

\* C10: a name has been set in a frame whose outer frame binds it to
\* another object
C10_SetShadowsOuter ==
    /\ last.op = "Set"
    /\ envs[last.env].outer # NilEnviroment
    /\ last.name \in DOMAIN envs[envs[last.env].outer].store
    /\ envs[envs[last.env].outer].store[last.name] # last.value
    /\ envs[last.env].store[last.name] = last.value

\* what printParserErrors is to write for the errors
ErrorReport(errors) ==
    <<MONKEY_FACE,
      <<"Woops! We ran into some monkey business here!\n">>,
      <<" parser errors:\n">>>>
      \o [i \in 1..Len(errors) |-> <<"\t">> \o errors[i] \o <<"\n">>]

\* Start has handled the line it parsed: from the parsed program back to
\* the prompt
C11_Step ==
    (rpc = "parsed" /\ rpc' = "prompt") =>
        IF Len(p.errors) # 0
        THEN /\ out' = out \o ErrorReport(p.errors)
             /\ envs' = envs
             /\ objects' = objects
        ELSE /\ evaluated'.calls = evaluated.calls + 1
             /\ evaluated'.node = program
             /\ evaluated'.v # NilRef
             /\ out' = out \o <<Inspect(objects'[evaluated'.v]), <<"\n">>>>

\* C11: for every line the REPL reads, a parser that recorded errors makes
\* it write the banner, the two header lines and every message in recorded
\* order and leave the environment as it was, without evaluating; a parser
\* without errors makes it evaluate the program and write the value's
\* inspect form and a newline.
C11_ReplReportsErrorsOrValue == [][C11_Step]_vars

\* a line with a statement and without errors was handled and nothing was
\* written
C11_NothingWritten ==
    /\ rpc = "prompt"
    /\ Len(lines) = 1
    /\ Len(lines[1].errors) = 0
    /\ lines[1].program.Statements # <<>>
    /\ evaluated.calls = 1
    /\ out = <<>>

ReplNames == {T.a.Literal, T.b.Literal}

RECURSIVE LetValue(_, _)
\* the value expression of the last let statement of stmts that names
\* name, NIL when there is none
LetValue(stmts, name) ==
    IF stmts = <<>> THEN NIL
    ELSE LET stmt == stmts[Len(stmts)] IN
         IF stmt.type = "LetStatement" /\ stmt.Name.Value = name
         THEN stmt.Value
         ELSE LetValue(SubSeq(stmts, 1, Len(stmts) - 1), name)

\* line k was evaluated and bound name
Binds(k, name) ==
    /\ Len(lines[k].errors) = 0
    /\ LetValue(lines[k].program.Statements, name) # NIL

\* the object a literal evaluates to
ObjectOf(node) ==
    IF node.type = "IntegerLiteral" THEN IntegerObj(node.Value)
    ELSE BooleanObj(node.Value)

C13_EvalNeverReturnsNil ==
    evaluated.calls > 0 => evaluated.v # NilRef

\* Eval was called on a let statement and returned nil
C13_NilForLetStatement ==
    /\ evaluated.calls > 0
    /\ evaluated.node.type = "LetStatement"
    /\ evaluated.v = NilRef

\* the Boolean literal whose value a node's value is: the node itself, the
\* expression of an expression statement, or the last statement of a
\* program; NIL when there is none
RECURSIVE LiteralOf(_)
LiteralOf(node) ==
    IF node.type = "Boolean" THEN node
    ELSE IF node.type = "ExpressionStatement" THEN LiteralOf(node.Expression)
    ELSE IF node.type = "Program" /\ node.Statements # <<>>
    THEN LET stmt == node.Statements[Len(node.Statements)] IN
         IF stmt.type = "ExpressionStatement" THEN LiteralOf(stmt) ELSE NIL
    ELSE NIL

\* C14: every evaluation of a true literal returns the one object TRUE,
\* every evaluation of a false literal the one object FALSE; no evaluation
\* allocates a Boolean object or changes what TRUE and FALSE hold.
C14_BooleanSingletons ==
    /\ Len(objects) >= FALSEOBJ
    /\ objects[TRUEOBJ] = BooleanObj(TRUE)
    /\ objects[FALSEOBJ] = BooleanObj(FALSE)
    /\ \A i \in 1..Len(objects) :
          objects[i].Type = "BOOLEAN" => i \in {TRUEOBJ, FALSEOBJ}
    /\ (evaluated.calls > 0 /\ LiteralOf(evaluated.node) # NIL) =>
          evaluated.v = IF LiteralOf(evaluated.node).Value THEN TRUEOBJ
                        ELSE FALSEOBJ

\* a second evaluation, of a true literal, after a first that allocated
C14_SecondEvaluationOfTrue ==
    /\ evaluated.calls = 2
    /\ evaluated.node.type = "Boolean"
    /\ evaluated.node.Value
    /\ Len(evaluated.before) > Len(PackageObjects)
    /\ evaluated.v = TRUEOBJ

\* the index of the first return statement of stmts, 0 when there is none
FirstReturn(stmts) ==
    LET returns == {i \in 1..Len(stmts) : stmts[i].type = "ReturnStatement"}
    IN IF returns = {} THEN 0
       ELSE CHOOSE i \in returns : \A j \in returns : i <= j

\* C15: a program's statements are evaluated in order up to the first
\* return statement, whose expression's value is the program's value, the
\* statements after it not being evaluated; without a return statement
\* the program's value is that of its last statement.
C15_ProgramStopsAtReturn ==
    (evaluated.calls > 0 /\ evaluated.node.type = "Program"
        /\ evaluated.node.Statements # <<>>) =>
        LET stmts == evaluated.node.Statements
            first == FirstReturn(stmts)
            stop == IF first = 0 THEN Len(stmts) ELSE first
            upto == evalStatements(SubSeq(stmts, 1, stop - 1),
                                   evaluated.before, NilRef)
            final == Eval(IF first = 0 THEN stmts[stop]
                          ELSE stmts[stop].ReturnValue, upto.objs)
        IN /\ evaluated.v = final.v
           /\ objects = final.objs

\* a program of a return statement and a statement after it was evaluated
C15_StatementAfterReturn ==
    /\ evaluated.calls > 0
    /\ evaluated.node.type = "Program"
    /\ Len(evaluated.node.Statements) = 2
    /\ FirstReturn(evaluated.node.Statements) = 1
    /\ evaluated.v # NilRef

RECURSIVE Descendants(_)
\* the node and every node below it
Descendants(node) ==
    LET Of(nodes) == UNION {Descendants(nodes[i]) : i \in 1..Len(nodes)}
        t == node.type
    IN {node} \cup
       (IF t \in {"Program", "BlockStatement"} THEN Of(node.Statements)
        ELSE IF t = "LetStatement"
        THEN Descendants(node.Name) \cup Descendants(node.Value)
        ELSE IF t = "ReturnStatement"
        THEN Descendants(node.Value) \cup Descendants(node.ReturnValue)
        ELSE IF t = "ExpressionStatement" THEN Descendants(node.Expression)
        ELSE IF t = "PrefixExpression" THEN Descendants(node.Right)
        ELSE IF t = "InfixExpression"
        THEN Descendants(node.Left) \cup Descendants(node.Right)
        ELSE IF t = "IfExpression"
        THEN Descendants(node.Condition) \cup Descendants(node.Consequence)
                 \cup Descendants(node.Alternative)
        ELSE IF t = "FunctionLiteral"
        THEN Of(node.Parameters) \cup Descendants(node.Body)
        ELSE IF t = "CallExpression"
        THEN Descendants(node.Function) \cup Of(node.Arguments)
        ELSE IF t = "ArrayLiteral" THEN Of(node.Elements)
        ELSE IF t = "IndexExpression"
        THEN Descendants(node.Left) \cup Descendants(node.Index)
        ELSE IF t = "HashLiteral"
        THEN UNION {Descendants(node.Pairs[i][1])
                        \cup Descendants(node.Pairs[i][2]) :
                    i \in 1..Len(node.Pairs)}
        ELSE {})

\* the function literals of the returned program
FunctionLiterals ==
    {n \in Descendants(program) : n.type = "FunctionLiteral"}

\* C16: in every FunctionLiteral of a program that ParseProgram returns
\* with no errors, every parameter was built from an IDENT token; any
\* other token in a parameter position makes the parser record an error.
C16_ParametersAreIdentifiers ==
    (pc = "returned" /\ Len(p.errors) = 0) =>
        \A n \in FunctionLiterals :
           \A i \in 1..Len(n.Parameters) :
              n.Parameters[i].Token.Type = "IDENT"

\* a program was returned without errors whose function literal has a
\* parameter made of an INT token
C16_IntegerParameter ==
    /\ pc = "returned"
    /\ Len(p.errors) = 0
    /\ \E n \in FunctionLiterals :
          /\ Len(n.Parameters) = 1
          /\ n.Parameters[1].Token.Type = "INT"
          /\ n.Body.type = "BlockStatement"

\* C17: in every program ParseProgram returns, with recorded errors or
\* without, every PrefixExpression has a right operand and every
\* InfixExpression a left and a right operand.
C17_OperandsNotNil ==
    pc = "returned" =>
        \A n \in Descendants(program) :
           /\ n.type = "PrefixExpression" => n.Right # NIL
           /\ n.type = "InfixExpression" => n.Left # NIL /\ n.Right # NIL

\* a program was returned, with an error, that holds a prefix expression
\* without its operand
C17_PrefixWithoutOperand ==
    /\ pc = "returned"
    /\ Len(p.errors) > 0
    /\ \E n \in Descendants(program) :
          n.type = "PrefixExpression" /\ n.Right = NIL

\* the order in which the pairs were written in the source
SourceOrder == [i \in 1..MaxPairs |-> i]

\* C19: a HashLiteral keeps its pairs in source order and String() prints
\* them in that order, so that printing the same program, hash literals
\* of two or more pairs in it, twice gives the same text both times.
C19_HashPrintsInSourceOrder ==
    /\ printed.done => printed.text = String(program, SourceOrder)
    /\ pc = "printed twice" => printed.again = printed.text

\* a program with a hash literal of two pairs was printed twice, and the
\* two texts differ
C19_TwoDifferentTexts ==
    /\ pc = "printed twice"
    /\ \E n \in Descendants(program) :
          n.type = "HashLiteral" /\ Len(n.Pairs) = 2
    /\ printed.text # PANIC
    /\ printed.again # PANIC
    /\ printed.again # printed.text

\* the index of the first semicolon of input after its third token, 0 when
\* there is none
FirstSemicolon(input) ==
    LET semis == {i \in 4..Len(input) : input[i].Type = "SEMICOLON"}
    IN IF semis = {} THEN 0 ELSE CHOOSE i \in semis : \A j \in semis : i <= j

\* <expr> of `let <name> = <expr>;` at the head of input, parsed on its
\* own at LOWEST
LetExpression(input) ==
    parseExpressionV0(
        NewV0(LexerOf(SubSeq(input, 4, FirstSemicolon(input) - 1))), LOWEST)

\* parseLetStatement of parser.go is about to return the first statement
\* of the input `let <name> = <expr>;`: its loop stands on the semicolon
LetReturnsV0 ==
    /\ pc0 = "parseLetStatement"
    /\ curTokenIs(p0, "SEMICOLON")
    /\ program0.Statements = <<>>
    /\ Len(p0.errors) = 0
    /\ p0.l.input[1].Type = "LET"
    /\ FirstSemicolon(p0.l.input) > 4
    /\ LetExpression(p0.l.input).v # NIL
    /\ Len(LetExpression(p0.l.input).p.errors) = 0
    /\ LetExpression(p0.l.input).p.peekToken.Type = "EOF"

\* C18: for `let <name> = <expr>` and a semicolon, parseLetStatement
\* returns a LetStatement with the Name <name> and the Value <expr> parsed
\* at LOWEST, the current token on the semicolon.  Stated for the parser
\* of parser.go.
C18_LetStatementHoldsItsExpression ==
    LetReturnsV0 =>
        /\ stmt0 = LetStatement(p0.l.input[1], Identifier(p0.l.input[2]),
                                LetExpression(p0.l.input).v)
        /\ curTokenIs(p0, "SEMICOLON")

\* parseLetStatement returns for `let a = 1;` with the name a
C18_LetReturnsWithName ==
    /\ LetReturnsV0
    /\ FirstSemicolon(p0.l.input) = 5
    /\ LetExpression(p0.l.input).v.type = "IntegerLiteral"
    /\ stmt0.type = "LetStatement"
    /\ stmt0.Name = Identifier(p0.l.input[2])

\* C20: a prefix operator binds tighter than every binary operator and
\* looser than call and index, and call and index bind tighter than every
\* binary operator: each expression that mixes them parses to the tree
\* whose fully parenthesised text is the expected one, as -a * b to
\* ((-a) * b), !f(x) to (!f(x)), -a[1] to (-(a[1])), a * b[1] to
\* (a * (b[1])) and a + b(c) * d to (a + (b(c) * d)).
C20_PrefixCallIndexBinding ==
    (call.op = "parseExpression" /\ call.arg = LOWEST) =>
        \A c \in BindingCases :
           Stream(call.before) = c.input =>
              /\ String(call.result, SourceOrder) = c.text
              /\ Stream(call.after) = <<c.input[Len(c.input)]>>
              /\ call.after.errors = call.before.errors

\* -a * b has been parsed to ((-a) * b)
C20_MinusTimes ==
    /\ call.op = "parseExpression"
    /\ call.arg = LOWEST
    /\ Stream(call.before) = <<T.MINUS, T.a, T.ASTERISK, T.b>>
    /\ call.result.type = "InfixExpression"
    /\ call.result.Left.type = "PrefixExpression"
    /\ call.result.Left.Right = Identifier(T.a)

\* the i-th token of the lexer's stream, EOF from the end of the input on
TokenAt(l, i) == IF i \in 1..Len(l.input) THEN l.input[i] ELSE EOFToken

\* the current and peek tokens are the k-th and k+1-th tokens of the stream
\* and the lexer hands out the k+2-th next
Consecutive(q) ==
    \E k \in 1..(Len(q.l.input) + 1) :
       /\ q.curToken = TokenAt(q.l, k)
       /\ q.peekToken = TokenAt(q.l, k + 1)
       /\ IF q.l.position <= Len(q.l.input) THEN q.l.position = k + 2
          ELSE k + 2 > Len(q.l.input)

C21_State ==
    /\ Consecutive(p)
    /\ p.curToken.Type = "EOF" => p.peekToken.Type = "EOF"

\* a step that is one call of nextToken and nothing else
C21_Step ==
    (call' = call /\ program' = program /\ p' # p) =>
        /\ p'.curToken = p.peekToken
        /\ p'.peekToken = Upcoming(p.l)
        /\ p'.l.input = p.l.input
        /\ p'.l.position =
               IF p.l.position <= Len(p.l.input) THEN p.l.position + 1
               ELSE p.l.position
        /\ p'.errors = p.errors

\* C21: after New and after every parser operation the current and peek
\* tokens are two consecutive tokens of the lexer's stream; nextToken moves
\* peek into cur and reads exactly one new token, so no token is skipped or
\* read twice; and once cur is EOF, peek is EOF as well.
C21_ConsecutiveTokens == [](C21_State) /\ [][C21_Step]_vars

\* C21: nextToken has been called until the current token is EOF, on an
\* input of two tokens or more
C21_BothAtEOF ==
    /\ pc = "loop"
    /\ call = NoCall
    /\ program.Statements = <<>>
    /\ Len(p.l.input) >= 2
    /\ p.l.position > Len(p.l.input)
    /\ p.curToken.Type = "EOF"
    /\ p.peekToken.Type = "EOF"


\* the environments made by NewEnclosedEnvironment(e)
EnclosedBy(heap, e) == {f \in 1..Len(heap) : heap[f].outer = e}

C22_Step ==
    /\ last'.op = "NewEnclosedEnvironment" =>
           /\ envs' = Append(envs, Enviroment(EmptyStore, last'.outer))
           /\ last'.env = Len(envs')
    /\ last'.op = "Set" =>
           \A f \in EnclosedBy(envs, last'.env) :
              /\ envs'[f] = envs[f]
              /\ Get(envs', f, last'.name) =
                     IF last'.name \in DOMAIN envs[f].store
                     THEN [obj |-> envs[f].store[last'.name], ok |-> TRUE]
                     ELSE [obj |-> last'.value, ok |-> TRUE]

\* C22: an enclosed environment holds its outer environment by reference,
\* not as a copy: NewEnclosedEnvironment(outer) makes one new empty frame
\* whose outer is the frame passed, and a binding that Set adds to or
\* replaces in the outer environment afterwards is what Get returns on the
\* enclosed environment, unless the enclosed frame itself binds the name.
C22_OuterHeldByReference == [][C22_Step]_vars

\* C22: a name has been set in an environment that two environments
\* enclose: one does not bind the name and returns the new binding, the
\* other binds the name itself and returns its own
C22_SetSeenThroughEnclosed ==
    /\ last.op = "Set"
    /\ \E f, g \in EnclosedBy(envs, last.env) :
          /\ last.name \notin DOMAIN envs[f].store
          /\ Get(envs, f, last.name) = [obj |-> last.value, ok |-> TRUE]
          /\ last.name \in DOMAIN envs[g].store
          /\ Get(envs, g, last.name).obj # last.value

\* the statement lists of the parsed program: its own and those of its blocks
StatementLists ==
    {node.Statements :
        node \in {n \in Descendants(program) :
                     n.type \in {"Program", "BlockStatement"}}}

\* C23: every element of Program.Statements and of
\* BlockStatement.Statements returned by the parser is a real statement
\* node: a let statement that fails its IDENT or `=` expectation, for which
\* parseLetStatement returns a nil *LetStatement, adds no entry to the list.
C23_StatementsAreNodes ==
    Parsed =>
        \A statements \in StatementLists : \A i \in 1..Len(statements) :
           statements[i].type \in
               {"LetStatement", "ReturnStatement", "ExpressionStatement"}

\* C23: ParseProgram has returned on `let 1`: parseLetStatement recorded
\* the failed IDENT expectation and returned nil, and the list of the
\* program holds that nil *LetStatement
C23_NilLetStatementAppended ==
    /\ pc = "returned"
    /\ p.l.input = <<T.let, T.ONE>>
    /\ Len(p.errors) = 1
    /\ program.Statements[1] = NilLetStatement

\* a sequence's elements
Range(seq) == {seq[i] : i \in 1..Len(seq)}

\* the expressions the parser has put into the slots of a node
ExpressionSlots(node) ==
    CASE node.type = "ExpressionStatement" -> {node.Expression}
      [] node.type = "LetStatement" -> {node.Value}
      [] node.type = "PrefixExpression" -> {node.Right}
      [] node.type = "InfixExpression" -> {node.Left, node.Right}
      [] node.type = "IfExpression" -> {node.Condition}
      [] node.type = "CallExpression" ->
             {node.Function} \cup Range(node.Arguments)
      [] node.type = "ArrayLiteral" -> Range(node.Elements)
      [] node.type = "IndexExpression" -> {node.Left, node.Index}
      [] node.type = "HashLiteral" ->
             UNION {{pair[1], pair[2]} : pair \in Range(node.Pairs)}
      [] OTHER -> {}

\* C24: if ParseProgram finishes with an empty error list, no expression
\* slot that the parser fills is nil: every ExpressionStatement.Expression,
\* LetStatement.Value, prefix and infix operand, if-condition, call callee
\* and argument, array element, index left and index operand, and hash key
\* and value is an expression.
C24_NoNilWithoutError ==
    (Parsed /\ p.errors = <<>>) =>
        \A node \in Descendants(program) : NIL \notin ExpressionSlots(node)

\* C24: ParseProgram has returned without errors a program that holds a
\* call with two arguments and a hash literal with two pairs
C24_CallAndHashParsed ==
    /\ pc = "returned"
    /\ p.errors = <<>>
    /\ \E node \in Descendants(program) :
          node.type = "CallExpression" /\ Len(node.Arguments) = 2
    /\ \E node \in Descendants(program) :
          node.type = "HashLiteral" /\ Len(node.Pairs) = 2

=============================================================================
